---- MODULE Spec2Model ----
(***************************************************************************)
(* A model of the wire crate (crates/wire): the tool invocation loop of    *)
(* the OpenAI and Anthropic clients (prompt_with_tools_internal) and the   *)
(* two SSE stream decoders (process_stream).                               *)
(*                                                                         *)
(* Strings whose content the code inspects are sequences of characters;    *)
(* identifiers the code only compares or copies are TLA+ strings.          *)
(***************************************************************************)
EXTENDS Integers, Sequences, FiniteSets, TLC

(***************************************************************************)
(* Bounds of the model.                                                    *)
(***************************************************************************)
\* Requests one prompt_with_tools call may send before the model stops it.
MaxTurns == 3
\* Lines of one SSE stream.
MaxLines == 3
\* Lines and chunks of one Gemini stream.
MaxChunks == 3
\* Deltas one prompt_stream call pushes.
MaxPushes == 2

(***************************************************************************)
(* Characters.                                                             *)
(***************************************************************************)
BS == "\\"
DQ == "\""
SQ == "'"
NL == "<LF>"
TAB == "<HT>"

RECURSIVE Replace(_, _, _)
\* str::replace for a two-character pattern: non-overlapping matches, left to
\* right, each replaced by the one character rep.
Replace(s, pat, rep) ==
    IF Len(s) < 2 THEN s
    ELSE IF <<s[1], s[2]>> = pat
         THEN <<rep>> \o Replace(SubSeq(s, 3, Len(s)), pat, rep)
         ELSE <<s[1]>> \o Replace(Tail(s), pat, rep)

\* A plausible slip: the backslash pair is collapsed first.
unescapeBackslashFirst(content) ==
    Replace(Replace(Replace(Replace(Replace(content,
        <<BS, BS>>, BS), <<BS, "n">>, NL), <<BS, "t">>, TAB),
        <<BS, DQ>>, DQ), <<BS, SQ>>, SQ)

\* network_common::unescape: five replacements, in this order.
unescape(content) ==
    Replace(Replace(Replace(Replace(Replace(content,
        <<BS, "n">>, NL), <<BS, "t">>, TAB), <<BS, DQ>>, DQ),
        <<BS, SQ>>, SQ), <<BS, BS>>, BS)

\* A plausible slip: the quotes are stripped without the length test.
StripQuotesNoGuard(s) ==
    IF Len(s) >= 1 /\ s[1] = DQ /\ s[Len(s)] = DQ
    THEN SubSeq(s, 2, Len(s) - 1) ELSE s

\* `if s.starts_with('"') && s.ends_with('"') && s.len() >= 2 { s[1..len-1] }`
StripQuotes(s) ==
    IF Len(s) >= 2 /\ s[1] = DQ /\ s[Len(s)] = DQ
    THEN SubSeq(s, 2, Len(s) - 1) ELSE s

\* A plausible slip: the text is pushed as received.
DecodeTextRaw(s) == s

\* The decoding of a finished answer in the tool loop: unescape, then strip.
DecodeText(s) == StripQuotes(unescape(s))


(***************************************************************************)
(* JSON documents and values of the tool loop. A JSON text is a character  *)
(* sequence; serde_json::from_str and Value::to_string are the tables of   *)
(* the documents the model uses.                                           *)
(***************************************************************************)
None == "<None>"
Invalid == "<invalid>"

ArgsCompact == <<"{", DQ, "v", DQ, ":", "1", "}">>
ArgsSpaced == <<"{", " ", DQ, "v", DQ, ":", " ", "2", " ", "}">>
ArgsTwo == <<"{", DQ, "v", DQ, ":", "2", "}">>
ArgsBad == <<"{", "b", "a", "d">>
JsonNull == <<"n", "u", "l", "l">>

\* serde_json::from_str::<Value>(&arguments): the value, or Invalid.
ParseJson(s) ==
    CASE s = ArgsCompact -> "V1"
      [] s = ArgsSpaced -> "V2"
      [] s = ArgsTwo -> "V2"
      [] s = JsonNull -> "VNull"
      [] OTHER -> Invalid

\* serde_json::Value::to_string: the compact rendering of a value.
ToJsonString(v) ==
    CASE v = "V1" -> ArgsCompact
      [] v = "V2" -> ArgsTwo
      [] OTHER -> JsonNull

\* Option<String> holding text.
NoText == [some |-> FALSE, s |-> <<>>]
SomeText(t) == [some |-> TRUE, s |-> t]

(***************************************************************************)
(* The caller's tool set: `echo` returns its arguments (tests/common:      *)
(* ToolWrapper(|args| args)), `boom` panics.                               *)
(***************************************************************************)
Tools == <<[name |-> "echo", panics |-> FALSE], [name |-> "boom", panics |-> TRUE]>>

\* tool.function.call(tool_args) of the tool named name.
ToolCall(name, args) == args

\* A plausible slip: an unknown name falls back to the first tool.
tool_map_default(name) ==
    IF \E i \in 1..Len(Tools) : Tools[i].name = name
    THEN [found |-> TRUE, tool |-> Tools[CHOOSE i \in 1..Len(Tools) : Tools[i].name = name]]
    ELSE [found |-> TRUE, tool |-> Tools[1]]

\* tool_map.get(&tool_name): the HashMap built from the tool list (a later
\* entry of the same name replaces an earlier one).
tool_map(name) ==
    IF \E i \in 1..Len(Tools) : Tools[i].name = name
    THEN [found |-> TRUE,
          tool |-> Tools[CHOOSE i \in 1..Len(Tools) :
                           /\ Tools[i].name = name
                           /\ \A j \in (i+1)..Len(Tools) : Tools[j].name # name]]
    ELSE [found |-> FALSE, tool |-> Tools[1]]

(***************************************************************************)
(* Messages (types.rs Message). api, system_prompt and the token counters  *)
(* are not modelled.                                                       *)
(***************************************************************************)
NoCalls == [some |-> FALSE, calls |-> <<>>]
SomeCalls(cs) == [some |-> TRUE, calls |-> cs]

Message(t, c, id, tcs, n) ==
    [message_type |-> t, content |-> c, tool_call_id |-> id, tool_calls |-> tcs, name |-> n]

FunctionCall(id, name, arguments) == [id |-> id, name |-> name, arguments |-> arguments]

UserMessage == Message("User", <<"Q">>, None, NoCalls, None)

\* The histories a caller passes in.
InputHistories ==
    { <<UserMessage>>,
      <<UserMessage, Message("Assistant", <<"A">>, None, NoCalls, None), UserMessage>> }

(***************************************************************************)
(* Provider responses. One record shape serves both providers: OpenAI      *)
(* reads choices[0].message.content and .tool_calls, Anthropic reads       *)
(* stop_reason and the content array (blocks).                             *)
(***************************************************************************)
Absent == [kind |-> "absent", items |-> <<>>]
Malformed == [kind |-> "malformed", items |-> <<>>]
Array(xs) == [kind |-> "array", items |-> xs]

Response(net, json, content, tool_calls, stop_reason, blocks) ==
    [net |-> net, json |-> json, content |-> content, tool_calls |-> tool_calls,
     stop_reason |-> stop_reason, blocks |-> blocks]

NetFailure == Response(FALSE, FALSE, NoText, Absent, None, Absent)
Garbage == Response(TRUE, FALSE, NoText, Absent, None, Absent)

PlainText == <<"O", "K">>
QuotedText == <<DQ, "a", BS, "n", DQ>>
Texts == {PlainText, QuotedText}

OAEcho1 == FunctionCall("call-1", "echo", ArgsCompact)
OAEcho2 == FunctionCall("call-2", "echo", ArgsSpaced)
OAGhost == FunctionCall("call-3", "ghost", ArgsCompact)
OABadArgs == FunctionCall("call-4", "echo", ArgsBad)
OABoom == FunctionCall("call-5", "boom", ArgsCompact)

\* tool_calls arrays whose calls all succeed, and arrays with a failing call.
OAGoodLists == { <<>>, <<OAEcho1>>, <<OAEcho2, OAEcho1>> }
OABadLists ==
    { <<OAGhost, OAEcho1>>, <<OAEcho1, OAGhost>>, <<OAEcho1, OABadArgs, OAEcho2>>,
      <<OABoom, OAEcho1>> }

OpenAIResponse(content, tool_calls) ==
    Response(TRUE, TRUE, content, tool_calls, None, Absent)

OpenAIResponses ==
    {NetFailure, Garbage}
    \cup { OpenAIResponse(SomeText(t), Absent) : t \in Texts }
    \cup { OpenAIResponse(SomeText(PlainText), Array(<<OAEcho1>>)) }
    \cup { OpenAIResponse(NoText, Array(cs)) : cs \in OAGoodLists \cup OABadLists }
    \cup { OpenAIResponse(NoText, Absent), OpenAIResponse(NoText, Malformed) }

TextBlock(t) ==
    [type |-> "text", text |-> SomeText(t), id |-> None, name |-> None, input |-> None]
ToolUseBlock(id, name, input) ==
    [type |-> "tool_use", text |-> NoText, id |-> id, name |-> name, input |-> input]

AEcho1 == ToolUseBlock("toolu-1", "echo", "V1")
AEcho2 == ToolUseBlock("toolu-2", "echo", "V2")
AGhost == ToolUseBlock("toolu-3", "ghost", "V1")
ABoom == ToolUseBlock("toolu-5", "boom", "V1")

\* content arrays of tool-use turns.
AGoodLists ==
    { <<>>, <<AEcho1>>, <<AEcho2, AEcho1>>, <<TextBlock(PlainText), AEcho1>>,
      <<TextBlock(PlainText)>> }
ABadLists == { <<AGhost, AEcho1>>, <<AEcho1, AGhost>>, <<AEcho1, ABoom, AEcho2>> }

AnthropicResponse(stop_reason, blocks) ==
    Response(TRUE, TRUE, NoText, Absent, stop_reason, blocks)

AnthropicResponses ==
    {NetFailure, Garbage}
    \cup { AnthropicResponse(sr, Array(<<TextBlock(t)>>)) : sr \in {"end_turn", None}, t \in Texts }
    \cup { AnthropicResponse("end_turn", Absent),
           AnthropicResponse("end_turn", Array(<<>>)),
           AnthropicResponse("end_turn", Array(<<AEcho1>>)),
           AnthropicResponse("tool_use", Absent) }
    \cup { AnthropicResponse("tool_use", Array(bs)) : bs \in AGoodLists \cup ABadLists }

Providers == {"openai", "anthropic"}

Responses(p) == IF p = "openai" THEN OpenAIResponses ELSE AnthropicResponses

(***************************************************************************)
(* AnthropicClient::format_messages.                                       *)
(***************************************************************************)
\* MessageType::to_string.
RoleName(t) ==
    CASE t = "System" -> "system"
      [] t = "User" -> "user"
      [] t = "Assistant" -> "assistant"
      [] t = "FunctionCall" -> "function"
      [] OTHER -> "tool"

\* json!({"type": "tool_result", "tool_use_id": id, "content": content})
ToolResultBlock(id, content) ==
    [type |-> "tool_result", tool_use_id |-> id, content |-> content]

\* json!({"role": role, "content": content})
Formatted(role, content) == [role |-> role, content |-> content]

RECURSIVE ResultBlocks(_)
\* The blocks pushed for a run of results: one for each that has an id.
ResultBlocks(results) ==
    IF results = <<>> THEN <<>>
    ELSE (IF results[1].tool_call_id # None
          THEN <<ToolResultBlock(results[1].tool_call_id, results[1].content)>>
          ELSE <<>>) \o ResultBlocks(Tail(results))

\* A plausible slip: the following results are not consumed.
RunEndNoPeek(chat_history, i) == i

RECURSIVE RunEnd(_, _)
\* The inner `while let Some(next_message) = iter.peek()`: the index of the
\* last message consumed with the result at i.
RunEnd(chat_history, i) ==
    IF i < Len(chat_history) /\ chat_history[i + 1].message_type = "FunctionCallOutput"
    THEN RunEnd(chat_history, i + 1)
    ELSE i

\* serde_json::from_str(&call.function.arguments).unwrap_or(Value::Null)
Input(call) ==
    IF ParseJson(call.arguments) = Invalid THEN "VNull" ELSE ParseJson(call.arguments)

RECURSIVE ToolUses(_)
\* calls.iter().map(..).collect()
ToolUses(calls) ==
    IF calls = <<>> THEN <<>>
    ELSE <<ToolUseBlock(calls[1].id, calls[1].name, Input(calls[1]))>>
         \o ToolUses(Tail(calls))

\* A plausible slip: the text block is pushed whether or not there is a text.
AssistantContentAlwaysText(message) ==
    <<TextBlock(message.content)>>
    \o (IF message.tool_calls.some THEN ToolUses(message.tool_calls.calls) ELSE <<>>)

\* The content array of an Assistant message.
AssistantContent(message) ==
    (IF message.content # <<>> THEN <<TextBlock(message.content)>> ELSE <<>>)
    \o (IF message.tool_calls.some THEN ToolUses(message.tool_calls.calls) ELSE <<>>)

RECURSIVE FormatFrom(_, _)
\* The outer `while let Some(current_message) = iter.next()`, from index i.
FormatFrom(chat_history, i) ==
    IF i > Len(chat_history) THEN <<>>
    ELSE LET current_message == chat_history[i]
         IN IF current_message.message_type = "FunctionCallOutput"
            THEN LET last == RunEnd(chat_history, i)
                 IN <<Formatted("user", Array(ResultBlocks(SubSeq(chat_history, i, last))))>>
                    \o FormatFrom(chat_history, last + 1)
            ELSE IF current_message.message_type = "Assistant"
            THEN <<Formatted(RoleName("Assistant"), Array(AssistantContent(current_message)))>>
                 \o FormatFrom(chat_history, i + 1)
            ELSE <<Formatted(RoleName(current_message.message_type),
                             [kind |-> "string", items |-> current_message.content])>>
                 \o FormatFrom(chat_history, i + 1)

format_messages(chat_history) == FormatFrom(chat_history, 1)

(***************************************************************************)
(* build_request of the three clients: the JSON body.                      *)
(***************************************************************************)
\* Option<Vec<Tool>>: the tools argument, by the names of the tools.
NoTools == [some |-> FALSE, names |-> <<>>]
SomeTools == [some |-> TRUE, names |-> [i \in 1..Len(Tools) |-> Tools[i].name]]

SystemPrompt == <<"P">>

OpenAIModels == {"GPT5", "GPT4o", "GPT4oMini", "O1Preview", "O1Mini"}

\* OpenAIModel::to_strings, the model component.
OpenAIModelName(model) ==
    CASE model = "GPT5" -> "gpt-5"
      [] model = "GPT4o" -> "gpt-4o"
      [] model = "GPT4oMini" -> "gpt-4o-mini"
      [] model = "O1Preview" -> "o1-preview"
      [] OTHER -> "o1-mini"

\* ThinkingLevel::as_reasoning_effort.
as_reasoning_effort(level) ==
    CASE level = "Minimal" -> "minimal"
      [] level = "Low" -> "low"
      [] level = "Medium" -> "medium"
      [] OTHER -> "high"

\* ClientOptions.thinking_level: None, or a level set by with_thinking_level.
ThinkingLevels == {None, "Minimal", "Low", "Medium", "High"}

\* Result of a builder: the body, or a panic.
Built(body) == [kind |-> "ok", body |-> body]
BuildPanic == [kind |-> "panic", body |-> <<>>]

\* OpenAIClient::with_options: apply_options reads endpoint and
\* disable_proxy only; build_request writes the fixed effort.
with_options(model, thinking_level) ==
    [model |-> model, effort |-> "minimal"]

\* The JSON object of one message in OpenAI's body.
OpenAIEntry(message) ==
    [role |-> IF message.message_type = "FunctionCall" THEN "assistant"
              ELSE RoleName(message.message_type),
     content |-> message.content,
     name |-> IF message.message_type = "FunctionCall" THEN "idk" ELSE None,
     tool_calls |-> IF message.message_type = "FunctionCall"
                    THEN message.tool_calls ELSE NoCalls,
     tool_call_id |-> IF message.message_type = "FunctionCallOutput"
                      THEN message.tool_call_id ELSE None]

\* A plausible slip: the model name is not tested.
OpenAIEffortAlways(c) == c.effort

\* `if model == "gpt-5" { body["reasoning_effort"] = .. }`
OpenAIEffort(c) ==
    IF OpenAIModelName(c.model) = "gpt-5" THEN c.effort ELSE None

\* A plausible slip: the system prompt is not made a message.
OpenAIMessagesNoSystem(system_prompt, chat_history) == chat_history

\* msgs = vec![system message]; msgs.append(&mut chat_history)
OpenAIMessages(system_prompt, chat_history) ==
    <<Message("System", system_prompt, None, NoCalls, None)>> \o chat_history

\* OpenAIClient::build_request; `tool_call_id.clone().unwrap()` panics on a
\* FunctionCallOutput without an id.
OpenAIBuildRequest(c, system_prompt, chat_history, tools, streaming) ==
    LET messages == OpenAIMessages(system_prompt, chat_history)
    IN IF \E i \in 1..Len(messages) :
            /\ messages[i].message_type = "FunctionCallOutput"
            /\ messages[i].tool_call_id = None
       THEN BuildPanic
       ELSE Built([model |-> OpenAIModelName(c.model),
                   messages |-> [i \in 1..Len(messages) |-> OpenAIEntry(messages[i])],
                   stream |-> streaming,
                   reasoning_effort |-> OpenAIEffort(c),
                   tools |-> tools])

\* AnthropicClient::build_request.
AnthropicBuildRequest(system_prompt, chat_history, tools, streaming) ==
    Built([messages |-> format_messages(chat_history),
           stream |-> streaming,
           system |-> system_prompt,
           tools |-> tools])

\* GeminiClient::build_request: `_ => panic!("Unsupported message type")`.
GeminiBuildRequest(system_prompt, chat_history, tools, streaming) ==
    IF \E i \in 1..Len(chat_history) :
         chat_history[i].message_type \notin {"User", "Assistant"}
    THEN BuildPanic
    ELSE Built([contents |-> [i \in 1..Len(chat_history) |->
                    [parts |-> <<chat_history[i].content>>,
                     role |-> IF chat_history[i].message_type = "User"
                              THEN "user" ELSE "model"]],
                system_instruction |-> system_prompt])

(***************************************************************************)
(* State of the tool loop.                                                 *)
(*   provider  the client in use                                           *)
(*   script    the provider's responses so far: response k answers the     *)
(*             k-th request of every call on this client                   *)
(*   runs      one record per prompt_with_tools call in progress           *)
(***************************************************************************)
VARIABLES provider, script, runs,
          decoder, stream, pos, full_message, channel, emitted, rx_alive, outcome,
          client,
          arg, value,
          routes, recordings, connections

loopVars == <<provider, script, runs>>

\* The state of one process_stream call: the lines of the connection, the
\* number of lines read, the accumulator, the observer channel with what
\* was put on it so far, and how the call ended.
streamVars == <<decoder, stream, pos, full_message, channel, emitted, rx_alive, outcome>>

\* One client from its construction through one call of a prompt method:
\* its configuration, the step the call is at, and the trace of what the
\* call has done outside the process.
callVars == <<client>>

\* No client is under construction.
CallIdle == client = [pc |-> "idle"]

\* One call of a function without side effects: its argument and, once it
\* has returned, its value.
pureVars == <<arg, value>>

\* No such call is under way.
PureIdle == arg = <<>> /\ value = <<>>

\* The mock server: its routes with their counters, the requests it has
\* recorded, and one record per accepted connection.
serverVars == <<routes, recordings, connections>>

\* No mock server is running.
ServerIdle == routes = <<>> /\ recordings = <<>> /\ connections = <<>>

notLoopVars == <<streamVars, callVars, pureVars, serverVars>>
notStreamVars == <<loopVars, callVars, pureVars, serverVars>>
notCallVars == <<loopVars, streamVars, pureVars, serverVars>>
notServerVars == <<loopVars, streamVars, callVars, pureVars>>

\* No stream is being decoded.
StreamIdle ==
    /\ decoder = "<None>"
    /\ stream = <<>>
    /\ pos = 0
    /\ full_message = <<>>
    /\ channel = <<>>
    /\ emitted = <<>>
    /\ rx_alive = FALSE
    /\ outcome = "idle"

\* Capacity of the observer channel: tokio::sync::mpsc::channel(2).
ChannelCapacity == 2

NoResult == [ok |-> FALSE, err |-> None, history |-> <<>>]
Ok(history) == [ok |-> TRUE, err |-> None, history |-> history]

\* A call before it starts: tx is TRUE for prompt_with_tools_with_status.
NewRun(tx, input, cap) ==
    [tx |-> tx, pc |-> "idle", input |-> input, chat_history |-> <<>>,
     nreq |-> 0, requests |-> <<>>, bodies |-> <<>>, tool_calls |-> <<>>, idx |-> 1,
     invoked |-> <<>>, inflight |-> 0,
     cap |-> cap, chan |-> <<>>, rxAlive |-> TRUE, delivered |-> <<>>,
     result |-> NoResult]

\* A plausible slip: the error hands back the history built so far.
FailKeepsHistory(run, kind) ==
    [run EXCEPT !.pc = "error", !.inflight = 0,
                !.result = [ok |-> FALSE, err |-> kind, history |-> run.chat_history]]

\* `?` on an Err: the function returns the error and drops its history.
Fail(run, kind) ==
    [run EXCEPT !.pc = "error", !.inflight = 0,
                !.result = [ok |-> FALSE, err |-> kind, history |-> <<>>]]

\* A plausible slip: a failed send is propagated with `?`.
SendStrict(run, msg) ==
    IF ~run.tx THEN run
    ELSE IF ~run.rxAlive THEN Fail(run, "send")
    ELSE [run EXCEPT !.chan = Append(@, msg), !.delivered = Append(@, msg)]

\* tx.send(msg).await blocks while the channel is full and its receiver alive.
SendBlocked(run) == run.tx /\ run.rxAlive /\ Len(run.chan) >= run.cap

\* `if let Some(tx) = tx.as_ref() { let _ = tx.send(msg).await; }`
Send(run, msg) ==
    IF ~run.tx \/ ~run.rxAlive THEN run
    ELSE [run EXCEPT !.chan = Append(@, msg), !.delivered = Append(@, msg)]

WarnMessage == <<"warn: anthropic tool support is experimental">>

\* A plausible slip: the status text names no tool.
StatusMessageAnonymous(name) == <<"calling tool ", "...">>

\* format!("calling tool {}...", call.function.name)
StatusMessage(name) == <<"calling tool ", name, "...">>

\* The finished branch: one Assistant message, calling_tools = false, and
\* the loop exits with Ok(chat_history).
Finish(run, text) ==
    LET h == Append(run.chat_history,
                    Message("Assistant", DecodeText(text), None, NoCalls, None))
    IN [run EXCEPT !.chat_history = h, !.pc = "done", !.result = Ok(h)]

\* The tool-use branch up to the `for call in tool_calls` loop.
BeginCalls(run, msg, calls) ==
    [run EXCEPT !.chat_history = Append(@, msg), !.tool_calls = calls, !.idx = 1,
                !.pc = IF calls = <<>> THEN "loop" ELSE "notify"]

\* A plausible slip: a response with tool_calls is a tool-use turn even when
\* it carries content.
HandleOpenAIToolsFirst(run, resp) ==
    IF ~resp.net THEN Fail(run, "transport")
    ELSE IF ~resp.json THEN Fail(run, "json")
    ELSE IF resp.tool_calls.kind = "array"
    THEN BeginCalls(run,
                    Message("FunctionCall", <<>>, None, SomeCalls(resp.tool_calls.items), None),
                    resp.tool_calls.items)
    ELSE IF resp.content.some THEN Finish(run, resp.content.s)
    ELSE Fail(run, "missing")

\* OpenAI: one response through the body of `while calling_tools`.
HandleOpenAI(run, resp) ==
    IF ~resp.net THEN Fail(run, "transport")
    ELSE IF ~resp.json THEN Fail(run, "json")
    ELSE IF resp.content.some THEN Finish(run, resp.content.s)
    ELSE IF resp.tool_calls.kind = "absent" THEN Fail(run, "missing")
    ELSE IF resp.tool_calls.kind = "malformed" THEN Fail(run, "json")
    ELSE BeginCalls(run,
                    Message("FunctionCall", <<>>, None, SomeCalls(resp.tool_calls.items), None),
                    resp.tool_calls.items)

RECURSIVE TextContent(_)
\* The text of the blocks of type text, joined.
TextContent(blocks) ==
    IF blocks = <<>> THEN <<>>
    ELSE (IF blocks[1].type = "text" /\ blocks[1].text.some THEN blocks[1].text.s ELSE <<>>)
         \o TextContent(Tail(blocks))

RECURSIVE ToolUseCalls(_)
\* One FunctionCall per block of type tool_use, in the order of the array.
ToolUseCalls(blocks) ==
    IF blocks = <<>> THEN <<>>
    ELSE (IF blocks[1].type = "tool_use"
          THEN <<FunctionCall(blocks[1].id, blocks[1].name, ToJsonString(blocks[1].input))>>
          ELSE <<>>)
         \o ToolUseCalls(Tail(blocks))

\* AnthropicClient::read_json_response: content[0].text as a string.
AnthropicText(resp) ==
    IF resp.blocks.kind = "array" /\ Len(resp.blocks.items) >= 1
    THEN resp.blocks.items[1].text
    ELSE NoText

\* A plausible slip: any response with a content array is a tool-use turn.
HandleAnthropicNoStopReason(run, resp) ==
    IF ~resp.net THEN Fail(run, "transport")
    ELSE IF ~resp.json THEN Fail(run, "json")
    ELSE IF resp.blocks.kind # "array" THEN Fail(run, "missing")
    ELSE BeginCalls(run,
                    Message("Assistant", TextContent(resp.blocks.items), None,
                            SomeCalls(ToolUseCalls(resp.blocks.items)), "?"),
                    ToolUseCalls(resp.blocks.items))

\* Anthropic: one response through the body of `while calling_tools`.
HandleAnthropic(run, resp) ==
    IF ~resp.net THEN Fail(run, "transport")
    ELSE IF ~resp.json THEN Fail(run, "json")
    ELSE IF resp.stop_reason # "tool_use"
    THEN IF AnthropicText(resp).some THEN Finish(run, AnthropicText(resp).s)
         ELSE Fail(run, "missing")
    ELSE IF resp.blocks.kind # "array" THEN Fail(run, "missing")
    ELSE BeginCalls(run,
                    Message("Assistant", TextContent(resp.blocks.items), None,
                            SomeCalls(ToolUseCalls(resp.blocks.items)), "?"),
                    ToolUseCalls(resp.blocks.items))

Handle(p, run, resp) ==
    IF p = "openai" THEN HandleOpenAI(run, resp) ELSE HandleAnthropic(run, resp)

\* A plausible slip: the arguments are not checked before the tool runs.
SpawnToolUnchecked(run) ==
    LET call == run.tool_calls[run.idx]
        hit == tool_map(call.name)
    IN IF ~hit.found THEN Fail(run, "tool_not_found")
       ELSE [run EXCEPT !.invoked = Append(@, [name |-> hit.tool.name,
                                                 args |-> ParseJson(call.arguments)]),
                        !.inflight = @ + 1, !.pc = "running"]

\* A plausible slip: the blocking task is spawned and not awaited, the for
\* loop goes on to the next call.
SpawnToolDetached(run) ==
    LET call == run.tool_calls[run.idx]
        hit == tool_map(call.name)
        tool_args == ParseJson(call.arguments)
    IN IF ~hit.found THEN Fail(run, "tool_not_found")
       ELSE IF tool_args = Invalid THEN Fail(run, "invalid_args")
       ELSE [run EXCEPT !.invoked = Append(@, [name |-> hit.tool.name, args |-> tool_args]),
                        !.inflight = @ + 1, !.idx = @ + 1,
                        !.pc = IF run.idx >= Len(run.tool_calls) THEN "loop" ELSE "notify"]

\* The call at idx: look the tool up, parse its arguments, hand it to
\* spawn_blocking.
SpawnTool(run) ==
    LET call == run.tool_calls[run.idx]
        hit == tool_map(call.name)
        tool_args == ParseJson(call.arguments)
    IN IF ~hit.found THEN Fail(run, "tool_not_found")
       ELSE IF tool_args = Invalid THEN Fail(run, "invalid_args")
       ELSE [run EXCEPT !.invoked = Append(@, [name |-> hit.tool.name, args |-> tool_args]),
                        !.inflight = @ + 1, !.pc = "running"]

\* A plausible slip: the result carries the id of the turn's first call.
ToolResultFirstId(run) ==
    LET call == run.tool_calls[run.idx]
        tool == tool_map(call.name).tool
    IN Message("FunctionCallOutput",
               ToJsonString(ToolCall(tool.name, ParseJson(call.arguments))),
               run.tool_calls[1].id, NoCalls, tool.name)

\* The FunctionCallOutput message of the call at idx.
ToolResult(run) ==
    LET call == run.tool_calls[run.idx]
        tool == tool_map(call.name).tool
    IN Message("FunctionCallOutput",
               ToJsonString(ToolCall(tool.name, ParseJson(call.arguments))),
               call.id, NoCalls, tool.name)

\* A plausible slip: the loop goes on to the next call after a tool panic.
JoinSkipPanic(run) ==
    LET last == run.idx >= Len(run.tool_calls)
        tool == tool_map(run.tool_calls[run.idx].name).tool
    IN [run EXCEPT !.inflight = 0, !.idx = @ + 1,
                   !.chat_history = IF tool.panics THEN @ ELSE Append(@, ToolResult(run)),
                   !.pc = IF last THEN "loop" ELSE "notify"]

\* The blocking task ends: a panic is a JoinError, otherwise the result is
\* pushed and the for loop moves on.
Join(run) ==
    LET last == run.idx >= Len(run.tool_calls)
        tool == tool_map(run.tool_calls[run.idx].name).tool
    IN IF tool.panics THEN Fail(run, "join")
       ELSE [run EXCEPT !.inflight = 0, !.idx = @ + 1,
                        !.chat_history = Append(@, ToolResult(run)),
                        !.pc = IF last THEN "loop" ELSE "notify"]

(***************************************************************************)
(* Actions of the tool loop.                                               *)
(***************************************************************************)
\* The caller starts prompt_with_tools (tx FALSE) or
\* prompt_with_tools_with_status (tx TRUE).
PromptWithTools(r) ==
    /\ runs[r].pc = "idle"
    /\ runs' = [runs EXCEPT ![r].chat_history = runs[r].input,
                            ![r].pc = IF provider = "anthropic" THEN "warn" ELSE "loop"]
    /\ UNCHANGED <<provider, script, notLoopVars>>

\* Anthropic only: the warning sent before the loop.
WarnExperimental(r) ==
    /\ runs[r].pc = "warn"
    /\ ~SendBlocked(runs[r])
    /\ runs' = [runs EXCEPT ![r] = [Send(runs[r], WarnMessage) EXCEPT !.pc = "loop"]]
    /\ UNCHANGED <<provider, script, notLoopVars>>

\* The client the loop runs on.
LoopClient == with_options("GPT4o", None)

\* A plausible slip: only the newest message is sent.
LoopBodyLatest(p, chat_history) ==
    LET latest == <<chat_history[Len(chat_history)]>>
    IN IF p = "openai"
       THEN OpenAIBuildRequest(LoopClient, SystemPrompt, latest, SomeTools, FALSE)
       ELSE AnthropicBuildRequest(SystemPrompt, latest, SomeTools, FALSE)

\* build_request(system_prompt.clone(), chat_history.clone(),
\* Some(tools.clone()), false)
LoopBody(p, chat_history) ==
    IF p = "openai"
    THEN OpenAIBuildRequest(LoopClient, SystemPrompt, chat_history, SomeTools, FALSE)
    ELSE AnthropicBuildRequest(SystemPrompt, chat_history, SomeTools, FALSE)

\* build_request(...).send(): requests keeps the history at the time of the
\* request, bodies what build_request made of it.
SendRequest(r) ==
    /\ runs[r].pc = "loop"
    /\ runs[r].nreq < MaxTurns
    /\ runs' = [runs EXCEPT ![r].nreq = @ + 1,
                            ![r].requests = Append(@, runs[r].chat_history),
                            ![r].bodies = Append(@, LoopBody(provider, runs[r].chat_history)),
                            ![r].pc = "await"]
    /\ UNCHANGED <<provider, script, notLoopVars>>

\* The response to request nreq arrives and is handled.
Respond(r) ==
    /\ runs[r].pc = "await"
    /\ \E resp \in Responses(provider) :
         /\ IF runs[r].nreq <= Len(script)
            THEN resp = script[runs[r].nreq] /\ script' = script
            ELSE script' = Append(script, resp)
         /\ runs' = [runs EXCEPT ![r] = Handle(provider, runs[r], resp)]
    /\ UNCHANGED <<provider, notLoopVars>>

\* The status message of the call at idx.
NotifyStatus(r) ==
    /\ runs[r].pc = "notify"
    /\ ~SendBlocked(runs[r])
    /\ runs' = [runs EXCEPT ![r] =
                  [Send(runs[r], StatusMessage(runs[r].tool_calls[runs[r].idx].name))
                     EXCEPT !.pc = "lookup"]]
    /\ UNCHANGED <<provider, script, notLoopVars>>

InvokeTool(r) ==
    /\ runs[r].pc = "lookup"
    /\ runs' = [runs EXCEPT ![r] = SpawnTool(runs[r])]
    /\ UNCHANGED <<provider, script, notLoopVars>>

JoinTool(r) ==
    /\ runs[r].pc = "running"
    /\ runs' = [runs EXCEPT ![r] = Join(runs[r])]
    /\ UNCHANGED <<provider, script, notLoopVars>>

\* The observer takes one message off the channel.
RxRecv(r) ==
    /\ runs[r].tx /\ runs[r].rxAlive /\ runs[r].chan # <<>>
    /\ runs' = [runs EXCEPT ![r].chan = Tail(@)]
    /\ UNCHANGED <<provider, script, notLoopVars>>

\* The observer drops its receiver.
RxDrop(r) ==
    /\ runs[r].tx /\ runs[r].rxAlive
    /\ runs' = [runs EXCEPT ![r].rxAlive = FALSE, ![r].chan = <<>>]
    /\ UNCHANGED <<provider, script, notLoopVars>>

LoopNext ==
    \/ \E r \in DOMAIN runs : PromptWithTools(r)
    \/ \E r \in DOMAIN runs : WarnExperimental(r)
    \/ \E r \in DOMAIN runs : SendRequest(r)
    \/ \E r \in DOMAIN runs : Respond(r)
    \/ \E r \in DOMAIN runs : NotifyStatus(r)
    \/ \E r \in DOMAIN runs : InvokeTool(r)
    \/ \E r \in DOMAIN runs : JoinTool(r)
    \/ \E r \in DOMAIN runs : RxRecv(r)
    \/ \E r \in DOMAIN runs : RxDrop(r)

\* One call on a freshly constructed client.
LoopInit ==
    /\ provider \in Providers
    /\ script = <<>>
    /\ StreamIdle
    /\ CallIdle
    /\ ServerIdle
    /\ PureIdle
    /\ \E tx \in BOOLEAN, input \in InputHistories :
         runs = <<NewRun(tx, input, ChannelCapacity)>>

\* A run has ended, or the model's bound on requests stops it.
Stopped(run) ==
    \/ run.pc \in {"done", "error"}
    \/ run.pc = "loop" /\ run.nreq >= MaxTurns

\* The call of run 1 is repeated as prompt_with_tools_with_status on the
\* same client: run 2 is served the responses run 1 was served.
RepeatWithStatus ==
    /\ Len(runs) = 1
    /\ Stopped(runs[1])
    /\ runs' = Append(runs, NewRun(TRUE, runs[1].input, ChannelCapacity))
    /\ UNCHANGED <<provider, script, notLoopVars>>

PairInit ==
    /\ provider \in Providers
    /\ script = <<>>
    /\ StreamIdle
    /\ CallIdle
    /\ ServerIdle
    /\ PureIdle
    /\ \E input \in InputHistories : runs = <<NewRun(FALSE, input, ChannelCapacity)>>

PairNext == LoopNext \/ RepeatWithStatus

vars == <<loopVars, notLoopVars>>

Spec == LoopInit /\ [][LoopNext]_vars

PairSpec == PairInit /\ [][PairNext]_vars

(***************************************************************************)
(* prompt_with_tools_with_status awaited before its channel is drained:    *)
(* `let result = client.prompt_with_tools_with_status(tx, ..).await` and    *)
(* only then `rx.recv().await`.                                            *)
(***************************************************************************)
\* Largest capacity of the observer channel.
MaxCapacity == 2

\* One step of the awaited call.
CallStep ==
    \/ PromptWithTools(1)
    \/ WarnExperimental(1)
    \/ SendRequest(1)
    \/ Respond(1)
    \/ NotifyStatus(1)
    \/ InvokeTool(1)
    \/ JoinTool(1)

\* rx.recv().await after the call has returned.
Drain ==
    /\ runs[1].pc \in {"done", "error"}
    /\ RxRecv(1)

\* tokio::sync::mpsc::channel(cap) and one call with its sender.
AwaitInit ==
    /\ provider \in Providers
    /\ script = <<>>
    /\ StreamIdle
    /\ CallIdle
    /\ ServerIdle
    /\ PureIdle
    /\ \E input \in InputHistories, cap \in 1..MaxCapacity :
         runs = <<NewRun(TRUE, input, cap)>>

AwaitNext == CallStep \/ Drain

\* The runtime keeps polling the call's future while it can make progress.
AwaitSpec == AwaitInit /\ [][AwaitNext]_vars /\ WF_vars(CallStep)

(***************************************************************************)
(* The SSE stream decoders: OpenAIClient::process_stream,                  *)
(* AnthropicClient::process_stream and network::process_anthropic_stream,  *)
(* the decoder behind network::prompt_stream.                              *)
(***************************************************************************)
Decoders == {"openai", "anthropic", "network_anthropic"}

\* JSON values at the path a decoder reads.
JNull == [j |-> "null", s |-> <<>>]
JString(s) == [j |-> "string", s |-> s]
JNumber(s) == [j |-> "number", s |-> s]

RECURSIVE Escape(_)
\* The escapes serde_json writes inside a string.
Escape(s) ==
    IF s = <<>> THEN <<>>
    ELSE (CASE s[1] = DQ -> <<BS, DQ>>
            [] s[1] = BS -> <<BS, BS>>
            [] s[1] = NL -> <<BS, "n">>
            [] s[1] = TAB -> <<BS, "t">>
            [] OTHER -> <<s[1]>>) \o Escape(Tail(s))

\* serde_json::Value::to_string.
ValueToString(v) ==
    IF v.j = "null" THEN JsonNull
    ELSE IF v.j = "string" THEN <<DQ>> \o Escape(v.s) \o <<DQ>>
    ELSE v.s

\* What one data event yields: nothing, a delta to emit, or a panic.
NoDelta == [kind |-> "none", text |-> <<>>]
Emit(text) == [kind |-> "emit", text |-> text]
Panic == [kind |-> "panic", text |-> <<>>]

\* `delta[1..delta.len() - 1]`: panics when the range is reversed.
Slice(delta) ==
    IF Len(delta) < 2 THEN Panic ELSE Emit(SubSeq(delta, 2, Len(delta) - 1))

\* A data payload as JSON: `type`, and the value at the path of the delta
\* (OpenAI choices[0].delta.content, Anthropic delta.text).
Event(type, text) == [type |-> type, text |-> text]
NoEvent == Event(None, JNull)

\* OpenAI: the delta of one parsed payload.
OpenAIDelta(json) ==
    LET delta == unescape(ValueToString(json.text))
    IN IF delta # JsonNull THEN Slice(delta) ELSE NoDelta

\* Anthropic: the delta of one parsed payload.
AnthropicDelta(json) ==
    LET delta == IF json.type = "content_block_delta"
                 THEN StripQuotes(unescape(ValueToString(json.text)))
                 ELSE JsonNull
    IN IF delta # JsonNull THEN Emit(delta) ELSE NoDelta

\* network::process_anthropic_stream: the quotes are cut without a test.
NetworkAnthropicDelta(json) ==
    LET delta == IF json.type = "content_block_delta"
                 THEN Slice(unescape(ValueToString(json.text)))
                 ELSE Emit(JsonNull)
    IN IF delta.kind = "emit" /\ delta.text = JsonNull THEN NoDelta ELSE delta

Delta(d, json) ==
    CASE d = "openai" -> OpenAIDelta(json)
      [] d = "anthropic" -> AnthropicDelta(json)
      [] OTHER -> NetworkAnthropicDelta(json)

\* The lines of a stream.
Line(prefix, payload, event) == [prefix |-> prefix, payload |-> payload, event |-> event]

OtherLine == Line("other", None, NoEvent)
StopLine == Line("stop", None, NoEvent)
DoneLine == Line("data", "done", NoEvent)
EmptyLine == Line("data", "empty", NoEvent)
GarbageLine == Line("data", "garbage", NoEvent)
DataLine(event) == Line("data", "json", event)

DeltaTexts == { <<"H", "e", "l">>, <<"l", "o">>, JsonNull, <<DQ, BS>> }

\* The events of an OpenAI stream: content deltas and chunks without content.
OpenAIEvents ==
    { Event(None, JString(t)) : t \in DeltaTexts } \cup { Event(None, JNull) }

\* The events of an Anthropic stream.
AnthropicEvents ==
    { Event("content_block_delta", JString(t)) : t \in DeltaTexts }
    \cup { Event("content_block_delta", JNull),
           Event("content_block_start", JString(<<"l", "o">>)),
           Event("ping", JNull) }

Lines(d) ==
    { OtherLine, StopLine, DoneLine, EmptyLine, GarbageLine }
    \cup { DataLine(e) : e \in (IF d = "openai" THEN OpenAIEvents ELSE AnthropicEvents) }

Streams(d) == UNION { [1..n -> Lines(d)] : n \in 0..MaxLines }

\* The line the for loop reads next.
NextLine == stream[pos + 1]

Reading == outcome = "reading" /\ pos < Len(stream)

\* `event: message_stop` ends the Anthropic loops; to OpenAI it is one more
\* line without the data prefix.
Terminator(d, line) ==
    \/ d # "openai" /\ line.prefix = "stop"
    \/ line.prefix = "data" /\ line.payload \in {"empty", "done"}

Skipped(d, line) == ~Terminator(d, line) /\ line.prefix # "data"

\* tokio's bounded channel makes send wait; std's channel never does.
SendWaits == decoder # "network_anthropic" /\ rx_alive /\ Len(channel) >= ChannelCapacity

(***************************************************************************)
(* Actions of process_stream: one per way through the body of              *)
(* `for line in reader.lines()`.                                           *)
(***************************************************************************)
\* `if !line.starts_with("data: ") { continue; }`
SkipLine ==
    /\ Reading
    /\ Skipped(decoder, NextLine)
    /\ pos' = pos + 1
    /\ UNCHANGED <<decoder, stream, full_message, channel, emitted, rx_alive, outcome, notStreamVars>>

\* serde_json::from_str fails: Err(InvalidData).
InvalidPayload ==
    /\ Reading
    /\ NextLine.prefix = "data" /\ NextLine.payload = "garbage"
    /\ pos' = pos + 1
    /\ outcome' = "error"
    /\ UNCHANGED <<decoder, stream, full_message, channel, emitted, rx_alive, notStreamVars>>

\* A plausible slip: the terminator line is passed over without `break`.
EndLineNoBreak ==
    /\ Reading
    /\ Terminator(decoder, NextLine)
    /\ pos' = pos + 1
    /\ UNCHANGED <<decoder, stream, full_message, channel, emitted, rx_alive, outcome, notStreamVars>>

\* `break`, then Ok(full_message).
EndLine ==
    /\ Reading
    /\ Terminator(decoder, NextLine)
    /\ pos' = pos + 1
    /\ outcome' = "ok"
    /\ UNCHANGED <<decoder, stream, full_message, channel, emitted, rx_alive, notStreamVars>>

\* A payload that parses: extract the delta, send it, accumulate it.  The
\* clients return the send error of a dropped receiver (`.await?`);
\* network.rs ignores it (`let _ = send_delta(..)`) and accumulates.
DataEvent ==
    /\ Reading
    /\ NextLine.prefix = "data" /\ NextLine.payload = "json"
    /\ LET d == Delta(decoder, NextLine.event)
           sendFails == d.kind = "emit" /\ ~rx_alive /\ decoder # "network_anthropic"
       IN /\ d.kind = "emit" => ~SendWaits
          /\ pos' = pos + 1
          /\ outcome' = (IF d.kind = "panic" THEN "panic"
                         ELSE IF sendFails THEN "error" ELSE outcome)
          /\ full_message' = (IF d.kind = "emit" /\ ~sendFails
                              THEN full_message \o d.text ELSE full_message)
          /\ channel' = (IF d.kind = "emit" /\ rx_alive THEN Append(channel, d.text) ELSE channel)
          /\ emitted' = (IF d.kind = "emit" /\ rx_alive THEN Append(emitted, d.text) ELSE emitted)
    /\ UNCHANGED <<decoder, stream, rx_alive, notStreamVars>>

\* reader.lines() is exhausted: the loop ends, Ok(full_message).
EndOfStream ==
    /\ outcome = "reading"
    /\ pos = Len(stream)
    /\ outcome' = "ok"
    /\ UNCHANGED <<decoder, stream, pos, full_message, channel, emitted, rx_alive, notStreamVars>>

\* The observer takes one delta off the channel.
ObserverRecv ==
    /\ rx_alive /\ channel # <<>>
    /\ channel' = Tail(channel)
    /\ UNCHANGED <<decoder, stream, pos, full_message, emitted, rx_alive, outcome, notStreamVars>>

\* The observer drops its receiver.
ObserverDrop ==
    /\ rx_alive
    /\ rx_alive' = FALSE
    /\ channel' = <<>>
    /\ UNCHANGED <<decoder, stream, pos, full_message, emitted, outcome, notStreamVars>>

StreamNext ==
    \/ SkipLine
    \/ EndLine
    \/ InvalidPayload
    \/ DataEvent
    \/ EndOfStream
    \/ ObserverRecv
    \/ ObserverDrop

\* process_stream is called on a connection that will deliver `stream`.
StreamInit ==
    /\ provider = "openai" /\ script = <<>> /\ runs = <<>>
    /\ CallIdle
    /\ ServerIdle
    /\ PureIdle
    /\ decoder \in Decoders
    /\ stream \in Streams(decoder)
    /\ pos = 0
    /\ full_message = <<>>
    /\ channel = <<>>
    /\ emitted = <<>>
    /\ rx_alive = TRUE
    /\ outcome = "reading"

StreamSpec == StreamInit /\ [][StreamNext]_vars

(***************************************************************************)
(* The chunked decoder: GeminiClient::process_stream.  The connection is a *)
(* sequence of bytes; `stream` holds them, `pos` counts the bytes read and *)
(* `full_message` is accumulated_text.  A JSON object is abbreviated to    *)
(* its braces around the text it carries, one byte per character.          *)
(***************************************************************************)
CR == "<CR>"

Whitespace == {CR, NL, TAB, " "}

HexDigits == <<"0", "1", "2", "3", "4", "5", "6", "7", "8", "9",
               "A", "B", "C", "D", "E", "F">>

\* format!("{:X}", n) for n below 16.
Hex(n) == HexDigits[n + 1]

RECURSIVE Trim(_)
\* str::trim.
Trim(s) ==
    IF s = <<>> THEN s
    ELSE IF s[1] \in Whitespace THEN Trim(Tail(s))
    ELSE IF s[Len(s)] \in Whitespace THEN Trim(SubSeq(s, 1, Len(s) - 1))
    ELSE s

\* The value of one hexadecimal digit, or -1.
DigitValue(c) ==
    IF \E i \in 1..16 : HexDigits[i] = c
    THEN (CHOOSE i \in 1..16 : HexDigits[i] = c) - 1
    ELSE -1

RECURSIVE HexValue(_, _)
HexValue(s, acc) ==
    IF s = <<>> THEN acc ELSE HexValue(Tail(s), 16 * acc + DigitValue(s[1]))

\* i64::from_str_radix(line, 16) on the lines of the model (none is signed
\* or longer than an i64): the value, or -1 for Err.
FromStrRadix16(line) ==
    IF line # <<>> /\ \A i \in 1..Len(line) : DigitValue(line[i]) >= 0
    THEN HexValue(line, 0) ELSE -1

\* The index of the last byte read_line takes from position p: through the
\* first line feed, or to the end of the connection.
LineEnd(p) ==
    IF \E i \in p + 1..Len(stream) : stream[i] = NL
    THEN CHOOSE i \in p + 1..Len(stream) :
            stream[i] = NL /\ \A k \in p + 1..i - 1 : stream[k] # NL
    ELSE Len(stream)

\* serde_json::from_str on the remainder of a chunk and the lookup of
\* candidates[0].content.parts[0].text.
ChunkText(rest) ==
    IF Len(rest) >= 2 /\ rest[1] = "{" /\ rest[Len(rest)] = "}"
    THEN (IF Len(rest) > 2 THEN SomeText(SubSeq(rest, 2, Len(rest) - 1)) ELSE NoText)
    ELSE NoText

\* One pass through the body of `loop` from position p, up to the send.
\*   kind: eof, skip, error, panic, end, chunk
\*   at:   the bytes read when the pass ends, the line break after a
\*         chunk included
\*   text: the delta of the chunk, if it has one
Pass(kind, at, text) == [kind |-> kind, at |-> at, text |-> text]

\* A byte that is no UTF-8.
BadByte == "<FF>"

\* A plausible slip: the line break after the chunk is left unread.
ReadChunkNoNewline(p, size) ==
    IF p + size > Len(stream) THEN Pass("error", Len(stream), NoText)
    ELSE LET chunk == Trim(SubSeq(stream, p + 1, p + size))
             q == p + size
         IN IF \E i \in p + 1..q : stream[i] = BadByte THEN Pass("panic", q, NoText)
            ELSE IF chunk = <<"]">> THEN Pass("end", q, NoText)
            ELSE IF chunk # <<>> /\ chunk[1] = "["
            THEN Pass("chunk", q, ChunkText(Tail(chunk)))
            ELSE IF Len(chunk) >= 3 /\ SubSeq(chunk, 1, 3) = <<",", CR, NL>>
            THEN Pass("chunk", q, ChunkText(SubSeq(chunk, 4, Len(chunk))))
            ELSE Pass("panic", q, NoText)

\* A plausible slip: a chunk that yields no text is an error, as a payload
\* that is no JSON is in the SSE decoders.
ReadChunkStrict(p, size) ==
    IF p + size > Len(stream) THEN Pass("error", Len(stream), NoText)
    ELSE LET chunk == Trim(SubSeq(stream, p + 1, p + size))
             q == p + size
         IN IF \E i \in p + 1..q : stream[i] = BadByte THEN Pass("panic", q, NoText)
            ELSE IF chunk = <<"]">> THEN Pass("end", q, NoText)
            ELSE IF chunk # <<>> /\ chunk[1] = "["
            THEN (IF ChunkText(Tail(chunk)).some
                  THEN Pass("chunk", LineEnd(q), ChunkText(Tail(chunk)))
                  ELSE Pass("error", q, NoText))
            ELSE IF Len(chunk) >= 3 /\ SubSeq(chunk, 1, 3) = <<",", CR, NL>>
            THEN (IF ChunkText(SubSeq(chunk, 4, Len(chunk))).some
                  THEN Pass("chunk", LineEnd(q), ChunkText(SubSeq(chunk, 4, Len(chunk))))
                  ELSE Pass("error", q, NoText))
            ELSE Pass("panic", q, NoText)

\* read_exact(size) from p, the chunk's marker, its JSON, and the read_line
\* that follows the chunk.
ReadChunk(p, size) ==
    IF p + size > Len(stream) THEN Pass("error", Len(stream), NoText)
    ELSE LET chunk == Trim(SubSeq(stream, p + 1, p + size))
             q == p + size
         IN IF \E i \in p + 1..q : stream[i] = BadByte THEN Pass("panic", q, NoText)
            ELSE IF chunk = <<"]">> THEN Pass("end", q, NoText)
            ELSE IF chunk # <<>> /\ chunk[1] = "["
            THEN Pass("chunk", LineEnd(q), ChunkText(Tail(chunk)))
            ELSE IF Len(chunk) >= 3 /\ SubSeq(chunk, 1, 3) = <<",", CR, NL>>
            THEN Pass("chunk", LineEnd(q), ChunkText(SubSeq(chunk, 4, Len(chunk))))
            ELSE Pass("panic", q, NoText)

\* A plausible slip: a size of zero is skipped like a line that is no size.
ReadPassSkipZero(p) ==
    IF p = Len(stream) THEN Pass("eof", p, NoText)
    ELSE LET q == LineEnd(p)
             line == Trim(SubSeq(stream, p + 1, q))
             size == FromStrRadix16(line)
         IN IF line = <<>> \/ line = <<",">> THEN Pass("skip", q, NoText)
            ELSE IF size <= 0 THEN Pass("skip", q, NoText)
            ELSE ReadChunk(q, size)

\* A plausible slip: the end of the connection at a line is a read error.
ReadPassEofIsError(p) ==
    IF p = Len(stream) THEN Pass("error", p, NoText)
    ELSE LET q == LineEnd(p)
             line == Trim(SubSeq(stream, p + 1, q))
             size == FromStrRadix16(line)
         IN IF line = <<>> \/ line = <<",">> THEN Pass("skip", q, NoText)
            ELSE IF size < 0 THEN Pass("skip", q, NoText)
            ELSE ReadChunk(q, size)

\* read_line, trim, the tests on the line, from_str_radix, then the chunk.
ReadPass(p) ==
    IF p = Len(stream) THEN Pass("eof", p, NoText)
    ELSE LET q == LineEnd(p)
             line == Trim(SubSeq(stream, p + 1, q))
             size == FromStrRadix16(line)
         IN IF line = <<>> \/ line = <<",">> THEN Pass("skip", q, NoText)
            ELSE IF size < 0 THEN Pass("skip", q, NoText)
            ELSE ReadChunk(q, size)

\* The objects of a Gemini stream: two with a text, one without.
ObjHi == <<"{", "H", "i", "}">>
ObjYo == <<"{", "Y", "o", "}">>
ObjNoText == <<"{", "}">>
Objects == {ObjHi, ObjYo, ObjNoText}

\* The text an object carries at candidates[0].content.parts[0].text.
ObjectText(object) == SubSeq(object, 2, Len(object) - 1)

\* mock send_chunked_response: one chunk is its size in hexadecimal, a line
\* break, the body, a line break.
Chunk(body) == <<Hex(Len(body)), CR, NL>> \o body \o <<CR, NL>>

\* The body of the chunk of object idx (counted from 0).
ChunkBody(idx, object) ==
    IF idx = 0 THEN <<"[">> \o object ELSE <<",", CR, NL>> \o object

RECURSIVE ObjectChunks(_, _)
ObjectChunks(idx, objects) ==
    IF objects = <<>> THEN <<>>
    ELSE Chunk(ChunkBody(idx, objects[1])) \o ObjectChunks(idx + 1, Tail(objects))

\* The response header, abbreviated to one line and the blank line.
Header == <<"H", "T", "T", "P", CR, NL, CR, NL>>

\* The whole response the mock writes for `objects`.
send_chunked_response(objects) ==
    Header \o ObjectChunks(0, objects) \o <<"1", CR, NL, "]", CR, NL>>
           \o <<"0", CR, NL, CR, NL>>

\* Pieces of streams no mock writes: lines that are no size, a size of
\* zero, chunks with the wrong marker, a connection cut inside a chunk, a
\* chunk that is no UTF-8.
Pieces ==
    { <<"H", "T", "T", "P", CR, NL>>, <<CR, NL>>, <<",", CR, NL>>, <<"0", CR, NL>>,
      Chunk(ChunkBody(0, ObjHi)), Chunk(ChunkBody(1, ObjYo)), Chunk(ChunkBody(0, ObjNoText)),
      Chunk(<<"[">>), Chunk(ObjHi), Chunk(<<"]">>),
      <<"5", CR, NL, "[", "{">>, Chunk(<<"[", BadByte>>) }

RECURSIVE Flatten(_)
Flatten(pieces) == IF pieces = <<>> THEN <<>> ELSE pieces[1] \o Flatten(Tail(pieces))

GeminiStreams ==
    { send_chunked_response(objects) :
        objects \in UNION { [1..n -> Objects] : n \in 0..MaxChunks } }
    \cup { Flatten(pieces) : pieces \in UNION { [1..n -> Pieces] : n \in 0..MaxChunks } }

(***************************************************************************)
(* Actions of GeminiClient::process_stream: one per way through the body   *)
(* of `loop`.                                                              *)
(***************************************************************************)
Decoding == decoder = "gemini" /\ outcome = "reading"

\* read_line returns 0: `break`, Ok(accumulated_text).
GeminiEof ==
    /\ Decoding
    /\ ReadPass(pos).kind = "eof"
    /\ outcome' = "ok"
    /\ UNCHANGED <<decoder, stream, pos, full_message, channel, emitted, rx_alive, notStreamVars>>

\* An empty line, a comma, or a line that is no hexadecimal number.
GeminiSkip ==
    /\ Decoding
    /\ ReadPass(pos).kind = "skip"
    /\ pos' = ReadPass(pos).at
    /\ UNCHANGED <<decoder, stream, full_message, channel, emitted, rx_alive, outcome, notStreamVars>>

\* read_exact fails: the connection ends inside the chunk.
GeminiReadError ==
    /\ Decoding
    /\ ReadPass(pos).kind = "error"
    /\ pos' = ReadPass(pos).at
    /\ outcome' = "error"
    /\ UNCHANGED <<decoder, stream, full_message, channel, emitted, rx_alive, notStreamVars>>

\* panic!: the chunk is no UTF-8 or starts with neither `[` nor `,\r\n`.
GeminiPanic ==
    /\ Decoding
    /\ ReadPass(pos).kind = "panic"
    /\ pos' = ReadPass(pos).at
    /\ outcome' = "panic"
    /\ UNCHANGED <<decoder, stream, full_message, channel, emitted, rx_alive, notStreamVars>>

\* The chunk `]`: `break`, Ok(accumulated_text).
GeminiEnd ==
    /\ Decoding
    /\ ReadPass(pos).kind = "end"
    /\ pos' = ReadPass(pos).at
    /\ outcome' = "ok"
    /\ UNCHANGED <<decoder, stream, full_message, channel, emitted, rx_alive, notStreamVars>>

\* A plausible slip: the text is sent to the observer but not accumulated.
GeminiChunkNoPush ==
    /\ Decoding
    /\ ReadPass(pos).kind = "chunk"
    /\ LET pass == ReadPass(pos)
       IN /\ pass.text.some => ~SendWaits
          /\ pos' = pass.at
          /\ outcome' = (IF pass.text.some /\ ~rx_alive THEN "error" ELSE outcome)
          /\ full_message' = full_message
          /\ channel' = (IF pass.text.some /\ rx_alive
                         THEN Append(channel, pass.text.s) ELSE channel)
          /\ emitted' = (IF pass.text.some /\ rx_alive
                         THEN Append(emitted, pass.text.s) ELSE emitted)
    /\ UNCHANGED <<decoder, stream, rx_alive, notStreamVars>>

\* A chunk with a marker: its text, if it has one, is accumulated and sent
\* (`tx.send(..).await?` returns the error of a dropped receiver), then the
\* line break after the chunk is read.
GeminiChunk ==
    /\ Decoding
    /\ ReadPass(pos).kind = "chunk"
    /\ LET pass == ReadPass(pos)
       IN /\ pass.text.some => ~SendWaits
          /\ pos' = pass.at
          /\ outcome' = (IF pass.text.some /\ ~rx_alive THEN "error" ELSE outcome)
          /\ full_message' = (IF pass.text.some THEN full_message \o pass.text.s
                              ELSE full_message)
          /\ channel' = (IF pass.text.some /\ rx_alive
                         THEN Append(channel, pass.text.s) ELSE channel)
          /\ emitted' = (IF pass.text.some /\ rx_alive
                         THEN Append(emitted, pass.text.s) ELSE emitted)
    /\ UNCHANGED <<decoder, stream, rx_alive, notStreamVars>>

GeminiNext ==
    \/ GeminiEof
    \/ GeminiSkip
    \/ GeminiReadError
    \/ GeminiPanic
    \/ GeminiEnd
    \/ GeminiChunk
    \/ ObserverRecv
    \/ ObserverDrop

\* process_stream is called on a connection that will deliver `stream`.
GeminiInit ==
    /\ provider = "openai" /\ script = <<>> /\ runs = <<>>
    /\ CallIdle
    /\ ServerIdle
    /\ PureIdle
    /\ decoder = "gemini"
    /\ stream \in GeminiStreams
    /\ pos = 0
    /\ full_message = <<>>
    /\ channel = <<>>
    /\ emitted = <<>>
    /\ rx_alive = TRUE
    /\ outcome = "reading"

GeminiSpec == GeminiInit /\ [][GeminiNext]_vars

(***************************************************************************)
(* prompt_stream of the three clients around process_stream, on a          *)
(* connection of any of the decoders.                                      *)
(***************************************************************************)
\* `let content = self.process_stream(stream, &tx).await?;` and the
\* Assistant message built from it; an error is passed on, a panic unwinds.
prompt_stream(result, content) ==
    IF result = "ok"
    THEN [kind |-> "ok", message |-> Message("Assistant", content, None, NoCalls, None)]
    ELSE [kind |-> result, message |-> Message("Assistant", <<>>, None, NoCalls, None)]

DecodeInit == StreamInit \/ GeminiInit

DecodeNext ==
    \/ decoder # "gemini" /\ StreamNext
    \/ decoder = "gemini" /\ GeminiNext

DecodeSpec == DecodeInit /\ [][DecodeNext]_vars

(***************************************************************************)
(* A client from with_options through one call of prompt, prompt_stream or *)
(* prompt_with_tools, as the order of the statements of the three clients  *)
(* gives it.  `trace` lists what the call does outside the process:        *)
(*   "env"      std::env::var on the provider's API key                    *)
(*   "request"  the request (builder or raw bytes) is complete             *)
(*   "connect"  connect_https opens the socket                             *)
(*   "write"    the request bytes are written to the socket                *)
(*   "send"     the HTTP request is sent with reqwest                      *)
(*   "push"     a delta is put on the observer channel                     *)
(*   "stderr"   a warning is printed                                       *)
(***************************************************************************)
ClientProviders == {"openai", "anthropic", "gemini"}

Schemes == {"https", "http"}

\* The methods a client implements; gemini.rs has no tool loop.
Methods(p) ==
    IF p = "gemini" THEN {"prompt", "prompt_stream"}
    ELSE {"prompt", "prompt_stream", "prompt_with_tools"}

NetworkEvents == {"connect", "write", "send"}

Did(event) == \E i \in 1..Len(client.trace) : client.trace[i] = event

Step(pc) == [client EXCEPT !.pc = pc]

Traced(c, event) == [c EXCEPT !.trace = Append(@, event)]

Ended(c, result) == [c EXCEPT !.pc = "done", !.result = result]

\* with_options: the fields are set from the options; nothing else happens.
NewClient ==
    /\ client.pc = "new"
    /\ client' = [client EXCEPT !.pc = "ready", !.scheme = client.options]
    /\ UNCHANGED notCallVars

\* The caller invokes one of the prompt methods.
Invoke ==
    /\ client.pc = "ready"
    /\ \E method \in Methods(client.provider) :
         client' = [client EXCEPT
                      !.method = method,
                      !.pc = IF method = "prompt_stream" THEN "guard"
                             ELSE IF method = "prompt_with_tools" /\ client.provider = "anthropic"
                             THEN "warn" ELSE "build"]
    /\ UNCHANGED notCallVars

\* A plausible slip: prompt_stream goes on whatever the scheme.
SchemeGuardMissing ==
    /\ client.pc = "guard"
    /\ client' = Step("build")
    /\ UNCHANGED notCallVars

\* `if self.scheme != Scheme::Https { return Err(Unsupported) }`
SchemeGuard ==
    /\ client.pc = "guard"
    /\ client' = (IF client.scheme # "https" THEN Ended(client, "unsupported")
                  ELSE Step("build"))
    /\ UNCHANGED notCallVars

\* Anthropic prompt_with_tools without an observer: eprintln!.
WarnStderr ==
    /\ client.pc = "warn"
    /\ client' = Traced(Step("build"), "stderr")
    /\ UNCHANGED notCallVars

\* A plausible slip: a missing key is sent as an empty token.
BuildRequestLenient ==
    /\ client.pc = "build"
    /\ client' = Traced(Traced(Step(IF client.method = "prompt_stream" THEN "connect"
                                    ELSE "send"), "env"), "request")
    /\ UNCHANGED notCallVars

\* build_request / build_request_raw: the body is serialized and
\* get_auth_token reads the key, `expect`ing it to be set.
BuildRequest ==
    /\ client.pc = "build"
    /\ client' = (IF ~client.key_set THEN Traced(Ended(client, "panic"), "env")
                  ELSE Traced(Traced(Step(IF client.method = "prompt_stream" THEN "connect"
                                          ELSE "send"), "env"), "request"))
    /\ UNCHANGED notCallVars

\* connect_https: every failure is an unwrap.
ConnectHttps ==
    /\ client.pc = "connect"
    /\ \E up \in BOOLEAN :
         client' = (IF up THEN Traced(Step("write"), "connect")
                    ELSE Traced(Ended(client, "panic"), "connect"))
    /\ UNCHANGED notCallVars

\* write_all and flush, `expect`ed.
WriteRequest ==
    /\ client.pc = "write"
    /\ \E up \in BOOLEAN :
         client' = (IF up THEN Traced(Step("decode"), "write")
                    ELSE Traced(Ended(client, "panic"), "write"))
    /\ UNCHANGED notCallVars

\* process_stream pushes a delta.
PushDelta ==
    /\ client.pc = "decode"
    /\ Cardinality({ i \in 1..Len(client.trace) : client.trace[i] = "push" }) < MaxPushes
    /\ client' = Traced(client, "push")
    /\ UNCHANGED notCallVars

\* process_stream returns: the text becomes the Assistant message, the
\* error is passed on.
StreamReturns ==
    /\ client.pc = "decode"
    /\ \E result \in {"ok", "err", "panic"} : client' = Ended(client, result)
    /\ UNCHANGED notCallVars

\* build_request(..).send().await and what follows the response.
SendHttp ==
    /\ client.pc = "send"
    /\ \E result \in {"ok", "err", "panic"} : client' = Traced(Ended(client, result), "send")
    /\ UNCHANGED notCallVars

CallNext ==
    \/ NewClient
    \/ Invoke
    \/ SchemeGuard
    \/ WarnStderr
    \/ BuildRequest
    \/ ConnectHttps
    \/ WriteRequest
    \/ PushDelta
    \/ StreamReturns
    \/ SendHttp

\* Before with_options: the provider, the endpoint options and whether the
\* provider's API key is set in the environment.
CallInit ==
    /\ provider = "openai" /\ script = <<>> /\ runs = <<>>
    /\ StreamIdle
    /\ PureIdle
    /\ ServerIdle
    /\ \E p \in ClientProviders, options \in Schemes, key_set \in BOOLEAN :
         client = [pc |-> "new", provider |-> p, options |-> options, scheme |-> "https",
                   key_set |-> key_set, method |-> None, trace |-> <<>>, result |-> None]

CallSpec == CallInit /\ [][CallNext]_vars

(***************************************************************************)
(* read_json_response of the three clients.  A serde_json::Value is a      *)
(* tagged tuple; an object lists its members as <<key, value>> pairs.      *)
(***************************************************************************)
ValueNull == <<"null">>
ValueNumber == <<"number">>
ValueString(s) == <<"string", s>>
ValueArray(items) == <<"array", items>>
ValueObject(members) == <<"object", members>>

Key(name) == <<"key", name>>
Index(i) == <<"index", i>>

\* Option<&Value>.
Nothing == [some |-> FALSE, v |-> ValueNull]
Some(v) == [some |-> TRUE, v |-> v]

\* Value::get with a string or a usize.
Get(v, step) ==
    IF step[1] = "key"
    THEN (IF v[1] = "object" /\ \E i \in 1..Len(v[2]) : v[2][i][1] = step[2]
          THEN Some(v[2][CHOOSE i \in 1..Len(v[2]) : v[2][i][1] = step[2]][2])
          ELSE Nothing)
    ELSE (IF v[1] = "array" /\ Len(v[2]) > step[2]
          THEN Some(v[2][step[2] + 1])
          ELSE Nothing)

RECURSIVE Walk(_, _)
\* .get(a).and_then(|v| v.get(b))...
Walk(v, path) ==
    IF path = <<>> THEN Some(v)
    ELSE LET next == Get(v, path[1])
         IN IF next.some THEN Walk(next.v, Tail(path)) ELSE Nothing

\* The fixed path of each provider.
ResponsePath(p) ==
    CASE p = "openai" -> <<Key("choices"), Index(0), Key("message"), Key("content")>>
      [] p = "anthropic" -> <<Key("content"), Index(0), Key("text")>>
      [] OTHER -> <<Key("candidates"), Index(0), Key("content"), Key("parts"),
                    Index(0), Key("text")>>

\* The message of the error of each provider.
MissingPath(p) ==
    CASE p = "openai" -> <<"Missing '", "choices[0].message.content", "'">>
      [] p = "anthropic" -> <<"Missing '", "content[0].text", "'">>
      [] OTHER -> <<"Missing '", "candidates[0].content.parts[0].text", "'">>

\* Result<String, Box<dyn Error>>, or a panic.
TextOk(text) == [kind |-> "ok", text |-> text, err |-> <<>>]
TextErr(err) == [kind |-> "err", text |-> <<>>, err |-> err]
TextPanic == [kind |-> "panic", text |-> <<>>, err |-> <<>>]

\* A plausible slip: a missing text is read as the empty text.
read_json_response_or_default(p, response_json) ==
    LET found == Walk(response_json, ResponsePath(p))
    IN IF found.some /\ found.v[1] = "string" THEN TextOk(found.v[2]) ELSE TextOk(<<>>)

\* .get(..).and_then(..) ... .and_then(|v| v.as_str()).ok_or_else(..)
read_json_response(p, response_json) ==
    LET found == Walk(response_json, ResponsePath(p))
    IN IF found.some /\ found.v[1] = "string" THEN TextOk(found.v[2])
       ELSE TextErr(MissingPath(p))

\* Values that are not what a step of a path expects.
Strays ==
    { ValueNull, ValueNumber, ValueString(<<"x">>), ValueObject(<<>>), ValueArray(<<>>),
      ValueObject(<<<<"error", ValueString(<<"x">>)>>>>),
      ValueObject(<<<<"0", ValueNull>>>>),
      ValueArray(<<ValueNull>>) }

RECURSIVE Document(_, _, _)
\* The document that follows path for depth steps and has `inner` there.
Document(path, depth, inner) ==
    IF depth = 0 THEN inner
    ELSE IF path[1][1] = "key"
    THEN ValueObject(<<<<path[1][2], Document(Tail(path), depth - 1, inner)>>>>)
    ELSE ValueArray(<<Document(Tail(path), depth - 1, inner)>>)

\* The arguments of read_json_response: documents whose path breaks at
\* some depth, and documents with a text at the end of the path.
JsonArgs ==
    UNION { { [provider |-> p,
               doc |-> Document(ResponsePath(p), depth, stray),
               whole |-> depth = Len(ResponsePath(p)) /\ stray[1] = "string"] :
                depth \in 0..Len(ResponsePath(p)), stray \in Strays } :
            p \in ClientProviders }

\* read_json_response is called and returns.
ReadJsonResponse ==
    /\ Len(value) = 0
    /\ value' = <<read_json_response(arg.provider, arg.doc)>>
    /\ UNCHANGED <<arg, loopVars, streamVars, callVars, serverVars>>

JsonNext == ReadJsonResponse

JsonInit ==
    /\ provider = "openai" /\ script = <<>> /\ runs = <<>>
    /\ StreamIdle
    /\ CallIdle
    /\ ServerIdle
    /\ arg \in JsonArgs
    /\ value = <<>>

JsonSpec == JsonInit /\ [][JsonNext]_vars

(***************************************************************************)
(* The non-streaming prompt of the three clients, from the parsed body on: *)
(* read_json_response, unescape, and the stripping of the wrapping quotes. *)
(***************************************************************************)
MaxText == 3

Chars == {BS, DQ, SQ, "n", "t", "a"}

\* The texts a response can carry.
Contents == UNION { [1..n -> Chars] : n \in 0..MaxText }

\* `content[1..content.len() - 1]`: the range 1..0 of a one-byte text panics.
Slice1(content) ==
    IF Len(content) < 2 THEN TextPanic
    ELSE TextOk(SubSeq(content, 2, Len(content) - 1))

\* The stripping step of prompt: OpenAI tests the two ends only, Anthropic
\* and Gemini test the length as well.
Strip(p, content) ==
    IF p = "openai"
    THEN (IF Len(content) >= 1 /\ content[1] = DQ /\ content[Len(content)] = DQ
          THEN Slice1(content)
          ELSE TextOk(content))
    ELSE (IF Len(content) >= 1 /\ content[1] = DQ /\ content[Len(content)] = DQ
             /\ Len(content) >= 2
          THEN Slice1(content)
          ELSE TextOk(content))

\* prompt, from the parsed body to the content of the returned Message.
PromptContent(p, response_json) ==
    LET content == read_json_response(p, response_json)
    IN IF content.kind # "ok" THEN content
       ELSE Strip(p, unescape(content.text))

\* The bodies of a response that carries a text.
PromptArgs ==
    { [provider |-> p, text |-> text,
       doc |-> Document(ResponsePath(p), Len(ResponsePath(p)), ValueString(text))] :
        p \in ClientProviders, text \in Contents }

\* prompt reads the body and returns.
Prompt ==
    /\ Len(value) = 0
    /\ value' = <<PromptContent(arg.provider, arg.doc)>>
    /\ UNCHANGED <<arg, loopVars, streamVars, callVars, serverVars>>

PromptNext == Prompt

PromptInit ==
    /\ provider = "openai" /\ script = <<>> /\ runs = <<>>
    /\ StreamIdle
    /\ CallIdle
    /\ ServerIdle
    /\ arg \in PromptArgs
    /\ value = <<>>

PromptSpec == PromptInit /\ [][PromptNext]_vars

(***************************************************************************)
(* One assistant text through prompt and through prompt_stream, for the    *)
(* OpenAI and Anthropic clients.                                           *)
(***************************************************************************)
\* The data event that carries text as its one delta.
DeltaEvent(p, text) ==
    IF p = "openai" THEN Event(None, JString(text))
    ELSE Event("content_block_delta", JString(text))

\* prompt_stream on a stream of one delta event and the terminator: what
\* process_stream accumulates is the content of the returned Message.
StreamContent(p, text) ==
    LET d == Delta(p, DeltaEvent(p, text))
    IN IF d.kind = "panic" THEN TextPanic
       ELSE IF d.kind = "emit" THEN TextOk(d.text)
       ELSE TextOk(<<>>)

AgreeArgs == { a \in PromptArgs : a.provider \in {"openai", "anthropic"} }

\* prompt_stream reads the stream and returns.
PromptStream ==
    /\ Len(value) = 1
    /\ value' = Append(value, StreamContent(arg.provider, arg.text))
    /\ UNCHANGED <<arg, loopVars, streamVars, callVars, serverVars>>

AgreeNext == Prompt \/ PromptStream

AgreeInit ==
    /\ provider = "openai" /\ script = <<>> /\ runs = <<>>
    /\ StreamIdle
    /\ CallIdle
    /\ ServerIdle
    /\ arg \in AgreeArgs
    /\ value = <<>>

AgreeSpec == AgreeInit /\ [][AgreeNext]_vars

(***************************************************************************)
(* The normalization of a text, applied to a text and to its own result.   *)
(***************************************************************************)
MaxPasses == 2

\* One more pass of unescape and quote stripping over the latest text.
Normalize ==
    /\ Len(value) < MaxPasses
    /\ value' = Append(value, DecodeText(IF value = <<>> THEN arg ELSE value[Len(value)]))
    /\ UNCHANGED <<arg, loopVars, streamVars, callVars, serverVars>>

NormalizeNext == Normalize

NormalizeInit ==
    /\ provider = "openai" /\ script = <<>> /\ runs = <<>>
    /\ StreamIdle
    /\ CallIdle
    /\ ServerIdle
    /\ arg \in Contents
    /\ value = <<>>

NormalizeSpec == NormalizeInit /\ [][NormalizeNext]_vars

(***************************************************************************)
(* AnthropicClient::format_messages: the translation of a chat history     *)
(* into the `messages` array of a request.                                 *)
(***************************************************************************)
MaxHistory == 4

\* The messages of the histories that are translated.
ResultMessage(id) ==
    Message("FunctionCallOutput", <<"r">>, id, NoCalls, "echo")

HistoryMessages ==
    { UserMessage,
      ResultMessage("1"), ResultMessage("2"), ResultMessage(None),
      Message("Assistant", <<"A">>, None, NoCalls, None),
      Message("Assistant", <<>>, None, SomeCalls(<<OAEcho1>>), None),
      Message("Assistant", <<"A">>, None, SomeCalls(<<OAEcho2, OABadArgs>>), None),
      Message("Assistant", <<>>, None, NoCalls, None) }

Histories == UNION { [1..n -> HistoryMessages] : n \in 0..MaxHistory }

\* build_request translates the history.
FormatMessages ==
    /\ Len(value) = 0
    /\ value' = <<format_messages(arg)>>
    /\ UNCHANGED <<arg, loopVars, streamVars, callVars, serverVars>>

FormatNext == FormatMessages

FormatInit ==
    /\ provider = "anthropic" /\ script = <<>> /\ runs = <<>>
    /\ StreamIdle
    /\ CallIdle
    /\ ServerIdle
    /\ arg \in Histories
    /\ value = <<>>

FormatSpec == FormatInit /\ [][FormatNext]_vars

(***************************************************************************)
(* The request translators: build_request of the three clients, from the   *)
(* arguments to the JSON body.                                             *)
(***************************************************************************)
MaxMessages == 2

\* The messages of the conversations that are translated.
TranslatedMessages ==
    { UserMessage,
      Message("System", <<"S">>, None, NoCalls, None),
      Message("Assistant", <<"A">>, None, NoCalls, None),
      Message("FunctionCall", <<>>, None, SomeCalls(<<OAEcho1, OAEcho2>>), None),
      ResultMessage("call-1"),
      ResultMessage(None) }

Conversations == UNION { [1..n -> TranslatedMessages] : n \in 0..MaxMessages }

ToolSets == {NoTools, SomeTools}

\* The arguments of a builder and the client it is called on.
TranslateArgs ==
    { [provider |-> "openai", model |-> m, thinking_level |-> l,
       chat_history |-> h, tools |-> t, stream |-> s] :
         m \in OpenAIModels, l \in ThinkingLevels, h \in Conversations,
         t \in ToolSets, s \in BOOLEAN }
    \cup { [provider |-> p, model |-> None, thinking_level |-> None,
            chat_history |-> h, tools |-> t, stream |-> s] :
              p \in {"anthropic", "gemini"}, h \in Conversations,
              t \in ToolSets, s \in BOOLEAN }

\* OpenAIClient::with_options(..).build_request(..)
TranslateOpenAI ==
    /\ Len(value) = 0
    /\ arg.provider = "openai"
    /\ value' = <<OpenAIBuildRequest(with_options(arg.model, arg.thinking_level),
                     SystemPrompt, arg.chat_history, arg.tools, arg.stream)>>
    /\ UNCHANGED <<arg, loopVars, streamVars, callVars, serverVars>>

\* AnthropicClient::build_request(..)
TranslateAnthropic ==
    /\ Len(value) = 0
    /\ arg.provider = "anthropic"
    /\ value' = <<AnthropicBuildRequest(SystemPrompt, arg.chat_history, arg.tools,
                                        arg.stream)>>
    /\ UNCHANGED <<arg, loopVars, streamVars, callVars, serverVars>>

\* GeminiClient::build_request(..)
TranslateGemini ==
    /\ Len(value) = 0
    /\ arg.provider = "gemini"
    /\ value' = <<GeminiBuildRequest(SystemPrompt, arg.chat_history, arg.tools,
                                     arg.stream)>>
    /\ UNCHANGED <<arg, loopVars, streamVars, callVars, serverVars>>

TranslateNext ==
    \/ TranslateOpenAI
    \/ TranslateAnthropic
    \/ TranslateGemini

TranslateInit ==
    /\ provider = "openai" /\ script = <<>> /\ runs = <<>>
    /\ StreamIdle
    /\ CallIdle
    /\ ServerIdle
    /\ arg \in TranslateArgs
    /\ value = <<>>

TranslateSpec == TranslateInit /\ [][TranslateNext]_vars

(***************************************************************************)
(* The model registry: API::from_strings / to_strings and the tables of    *)
(* the provider modules.  A table is a set of <<wire string, variant>>     *)
(* pairs, one per match arm.                                               *)
(***************************************************************************)
\* The arms of API::from_strings.
FromStringsArms(p) ==
    CASE p = "openai" ->
           { <<"gpt-5", "GPT5">>, <<"gpt-4o", "GPT4o">>, <<"gpt-4o-mini", "GPT4oMini">>,
             <<"o1-preview", "O1Preview">>, <<"o1-mini", "O1Mini">> }
      [] p = "anthropic" ->
           { <<"claude-opus-4-1-20250805", "ClaudeOpus41">>,
             <<"claude-opus-4-20250514", "ClaudeOpus4">>,
             <<"claude-sonnet-4-20250514", "ClaudeSonnet4">>,
             <<"claude-3-7-sonnet-20250219", "Claude37Sonnet">>,
             <<"claude-3-5-sonnet-20241022", "Claude35SonnetNew">>,
             <<"claude-3-5-haiku-20241022", "Claude35Haiku">>,
             <<"claude-3-5-sonnet-20240620", "Claude35SonnetOld">>,
             <<"claude-3-haiku-20240307", "Claude3Haiku">>,
             <<"claude-3-opus-20240229", "Claude3Opus">> }
      [] p = "gemini" ->
           { <<"gemini-2.5-flash-preview-04-17", "Gemini25ProExp">>,
             <<"gemini-2.0-flash", "Gemini20Flash">>,
             <<"gemini-2.0-flash-lite", "Gemini20FlashLite">>,
             <<"gemini-embedding-exp", "GeminiEmbedding">> }
      [] OTHER -> {}

\* The arms of from_model_name of the provider modules.
FromModelNameArms(p) ==
    CASE p = "openai" ->
           { <<"gpt-5", "GPT5">>, <<"gpt-4o", "GPT4o">>, <<"gpt-4o-mini", "GPT4oMini">>,
             <<"o1-preview", "O1Preview">>, <<"o1-mini", "O1Mini">> }
      [] p = "anthropic" ->
           { <<"claude-opus-4-1-20250805", "ClaudeOpus41">>,
             <<"claude-opus-4-20250514", "ClaudeOpus4">>,
             <<"claude-sonnet-4-20250514", "ClaudeSonnet4">>,
             <<"claude-3-7-sonnet-20250219", "Claude37Sonnet">>,
             <<"claude-3-5-sonnet-20241022", "Claude35SonnetNew">>,
             <<"claude-3-5-haiku-20241022", "Claude35Haiku">>,
             <<"claude-3-5-sonnet-20240620", "Claude35SonnetOld">>,
             <<"claude-3-haiku-20240307", "Claude3Haiku">>,
             <<"claude-3-opus-20240229", "Claude3Opus">> }
      [] OTHER -> {}

\* The arms of to_strings of the provider modules (API::to_strings calls
\* them); the Gemini arms are those of types::API::to_strings.
ToStringsArms(p) ==
    CASE p = "openai" ->
           { <<"gpt-5", "GPT5">>, <<"gpt-4o", "GPT4o">>, <<"gpt-4o-mini", "GPT4oMini">>,
             <<"o1-preview", "O1Preview">>, <<"o1-mini", "O1Mini">> }
      [] p = "anthropic" ->
           { <<"claude-opus-4-1-20250805", "ClaudeOpus41">>,
             <<"claude-opus-4-20250514", "ClaudeOpus4">>,
             <<"claude-sonnet-4-20250514", "ClaudeSonnet4">>,
             <<"claude-3-7-sonnet-20250219", "Claude37Sonnet">>,
             <<"claude-3-5-sonnet-20241022", "Claude35SonnetNew">>,
             <<"claude-3-5-haiku-20241022", "Claude35Haiku">>,
             <<"claude-3-5-sonnet-20240620", "Claude35SonnetOld">>,
             <<"claude-3-haiku-20240307", "Claude3Haiku">>,
             <<"claude-3-opus-20240229", "Claude3Opus">> }
      [] OTHER ->
           { <<"gemini-2.5-flash-preview-04-17", "Gemini25ProExp">>,
             <<"gemini-2.0-flash", "Gemini20Flash">>,
             <<"gemini-2.0-flash-lite", "Gemini20FlashLite">>,
             <<"gemini-embedding-exp", "GeminiEmbedding">> }

\* A pair of strings, a variant of API or of a provider's model enum, and
\* the Err of a lookup.
Strings(p, model) == [kind |-> "strings", provider |-> p, name |-> model]
Variant(p, model) == [kind |-> "api", provider |-> p, name |-> model]
Unknown(what, name) == [kind |-> "err", provider |-> what, name |-> name]

\* `match model { arms, _ => Err(..) }`
Lookup(arms, p, model, what) ==
    IF \E arm \in arms : arm[1] = model
    THEN Variant(p, (CHOOSE arm \in arms : arm[1] = model)[2])
    ELSE Unknown(what, model)

UnknownModel(p) ==
    CASE p = "openai" -> "Unknown OpenAI model: "
      [] p = "anthropic" -> "Unknown Anthropic model: "
      [] OTHER -> "Unknown Gemini model: "

\* A plausible slip: an unknown model falls back to the provider's first.
from_strings_or_default(p, model) ==
    IF p \notin ClientProviders THEN Unknown("Unknown provider: ", p)
    ELSE IF \E arm \in FromStringsArms(p) : arm[1] = model
    THEN Lookup(FromStringsArms(p), p, model, UnknownModel(p))
    ELSE Variant(p, (CHOOSE arm \in FromStringsArms(p) : TRUE)[2])

\* API::from_strings.
from_strings(p, model) ==
    IF p \notin ClientProviders THEN Unknown("Unknown provider: ", p)
    ELSE Lookup(FromStringsArms(p), p, model, UnknownModel(p))

\* OpenAIModel::from_model_name, AnthropicModel::from_model_name.
from_model_name(p, model) ==
    Lookup(FromModelNameArms(p), p, model, UnknownModel(p))

\* API::to_strings, through to_strings of the provider's model.
to_strings(api) ==
    Strings(api.provider,
            (CHOOSE arm \in ToStringsArms(api.provider) : arm[2] = api.name)[1])

\* The strings and the variants a caller passes.
RegistryArgs ==
    { Strings(p, model) :
        p \in ClientProviders \cup {"mistral"},
        model \in { arm[1] : arm \in UNION { FromStringsArms(q) : q \in ClientProviders } }
                  \cup {"gpt-4.1", "GPT5", ""} }
    \cup UNION { { Variant(q, arm[2]) : arm \in ToStringsArms(q) } : q \in ClientProviders }

Latest == IF value = <<>> THEN arg ELSE value[Len(value)]

\* API::from_strings is applied to the latest pair of strings.
FromStrings ==
    /\ Len(value) < 2
    /\ Latest.kind = "strings"
    /\ value' = Append(value, from_strings(Latest.provider, Latest.name))
    /\ UNCHANGED <<arg, loopVars, streamVars, callVars, serverVars>>

\* from_model_name of the provider's module is applied to the model string.
FromModelName ==
    /\ value = <<>>
    /\ arg.kind = "strings"
    /\ arg.provider \in {"openai", "anthropic"}
    /\ value' = <<from_model_name(arg.provider, arg.name)>>
    /\ UNCHANGED <<arg, loopVars, streamVars, callVars, serverVars>>

\* API::to_strings is applied to the latest variant.
ToStrings ==
    /\ Len(value) < 2
    /\ Latest.kind = "api"
    /\ value' = Append(value, to_strings(Latest))
    /\ UNCHANGED <<arg, loopVars, streamVars, callVars, serverVars>>

RegistryNext ==
    \/ FromStrings
    \/ FromModelName
    \/ ToStrings

RegistryInit ==
    /\ provider = "openai" /\ script = <<>> /\ runs = <<>>
    /\ StreamIdle
    /\ CallIdle
    /\ ServerIdle
    /\ arg \in RegistryArgs
    /\ value = <<>>

RegistrySpec == RegistryInit /\ [][RegistryNext]_vars

(***************************************************************************)
(* serde's serialization of types::Message.  The serialized message lists  *)
(* the keys it writes; `api` is written adjacently tagged, as the pair of  *)
(* the renamed provider and the renamed model.                             *)
(***************************************************************************)

\* The #[serde(rename = ..)] attributes of the model enums of types.rs, as
\* <<written string, variant>> pairs.
SerdeRenames(p) ==
    CASE p = "openai" ->
           { <<"gpt-5", "GPT5">>, <<"gpt-4.1", "GPT4o">>, <<"gpt-4o-mini", "GPT4oMini">>,
             <<"o1-preview", "O1Preview">>, <<"o1-mini", "O1Mini">> }
      [] p = "anthropic" ->
           { <<"claude-opus-4-1-20250805", "ClaudeOpus41">>,
             <<"claude-opus-4-20250514", "ClaudeOpus4">>,
             <<"claude-sonnet-4-20250514", "ClaudeSonnet4">>,
             <<"claude-3-7-sonnet-20250219", "Claude37Sonnet">>,
             <<"claude-3-5-sonnet-20241022", "Claude35SonnetNew">>,
             <<"claude-3-5-haiku-20241022", "Claude35Haiku">>,
             <<"claude-3-5-sonnet-20240620", "Claude35SonnetOld">>,
             <<"claude-3-haiku-20240307", "Claude3Haiku">>,
             <<"claude-3-opus-20240229", "Claude3Opus">> }
      [] OTHER ->
           { <<"gemini-2.5-flash-preview-04-17", "Gemini25ProExp">>,
             <<"gemini-2.0-flash", "Gemini20Flash">>,
             <<"gemini-2.0-flash-lite", "Gemini20FlashLite">>,
             <<"gemini-embedding-exp", "GeminiEmbedding">> }

\* The #[serde(rename = ..)] attributes of the variants of API.
SerdeProvider(p) ==
    CASE p = "openai" -> "openai"
      [] p = "anthropic" -> "anthropic"
      [] OTHER -> "gemini"

\* Serialize of API: {"provider": .., "model": ..}.
SerializeApi(api) ==
    Strings(SerdeProvider(api.provider),
            (CHOOSE arm \in SerdeRenames(api.provider) : arm[2] = api.name)[1])

\* Serialize of Message: content is skipped when empty, and so are the three
\* options, which the messages here leave None.
SerializeMessage(message) ==
    [keys |-> <<"message_type">>
              \o (IF message.content = "" THEN <<>> ELSE <<"content">>)
              \o <<"api", "system_prompt">>,
     message_type |-> message.message_type,
     content |-> message.content,
     api |-> SerializeApi(message.api),
     system_prompt |-> message.system_prompt]

MessageTypes == {"System", "User", "Assistant", "FunctionCall", "FunctionCallOutput"}

\* The messages a caller serializes: every variant of every provider.
SerializeArgs ==
    UNION { { [message_type |-> t, content |-> c, api |-> Variant(q, arm[2]),
               system_prompt |-> ""] :
                t \in MessageTypes, c \in {"", "hi"}, arm \in ToStringsArms(q) } :
            q \in ClientProviders }

\* serde_json::to_value(&message)
Serialize ==
    /\ value = <<>>
    /\ value' = <<SerializeMessage(arg)>>
    /\ UNCHANGED <<arg, loopVars, streamVars, callVars, serverVars>>

\* message.api.to_strings(), the pair the outbound request is built from.
RequestModel ==
    /\ Len(value) = 1
    /\ value' = Append(value, to_strings(arg.api))
    /\ UNCHANGED <<arg, loopVars, streamVars, callVars, serverVars>>

SerializeNext == Serialize \/ RequestModel

SerializeInit ==
    /\ provider = "openai" /\ script = <<>> /\ runs = <<>>
    /\ StreamIdle
    /\ CallIdle
    /\ ServerIdle
    /\ arg \in SerializeArgs
    /\ value = <<>>

SerializeSpec == SerializeInit /\ [][SerializeNext]_vars

(***************************************************************************)
(* build_request_raw of the three clients.  The request is a sequence of   *)
(* tokens: the text of a header line is one token, every byte of a line    *)
(* end and of the body is a token of its own.                              *)
(***************************************************************************)
CRLF == <<CR, NL>>

\* serde_json::to_string(&body): the messages' contents inside the object.
JsonString(chat_history) ==
    <<"{">>
    \o Flatten([i \in 1..Len(chat_history) |->
                  <<DQ>> \o Escape(chat_history[i].content) \o <<DQ>>])
    \o <<"}">>

\* The request and the number written into its Content-Length header.
RawRequest(content_length, text) == [content_length |-> content_length, text |-> text]

\* The header lines from the request line to `Accept`, each with its line end.
CommonHead ==
    <<"POST {} HTTP/1.1">> \o CRLF \o <<"Host: {}">> \o CRLF
    \o <<"Content-Type: application/json">> \o CRLF
    \o <<"Content-Length: {}">> \o CRLF \o <<"Accept: */*">> \o CRLF

\* OpenAIClient::build_request_raw: auth_string, then api_version ("\r\n").
OpenAIBuildRequestRaw(chat_history) ==
    LET json_string == JsonString(chat_history)
    IN RawRequest(Len(json_string),
                  CommonHead \o <<"Authorization: Bearer {}">> \o CRLF \o CRLF
                  \o Trim(json_string))

\* AnthropicClient::build_request_raw.
AnthropicBuildRequestRaw(chat_history) ==
    LET json_string == JsonString(chat_history)
    IN RawRequest(Len(json_string),
                  CommonHead \o <<"x-api-key: {}">> \o CRLF
                  \o <<"anthropic-version: 2023-06-01">> \o CRLF \o CRLF
                  \o Trim(json_string))

\* GeminiClient::build_request_raw: "Accept: */*\r\n\r\n\r\n{}".
GeminiBuildRequestRaw(chat_history) ==
    LET json_string == JsonString(chat_history)
    IN RawRequest(Len(json_string),
                  CommonHead \o CRLF \o CRLF \o Trim(json_string))

build_request_raw(p, chat_history) ==
    CASE p = "openai" -> OpenAIBuildRequestRaw(chat_history)
      [] p = "anthropic" -> AnthropicBuildRequestRaw(chat_history)
      [] OTHER -> GeminiBuildRequestRaw(chat_history)

\* The histories of a streamed prompt: one user message.
RawArgs ==
    { [provider |-> p, chat_history |-> <<Message("User", text, None, NoCalls, None)>>] :
        p \in ClientProviders, text \in Contents }

\* prompt_stream builds the request it writes to the socket.
BuildRequestRaw ==
    /\ Len(value) = 0
    /\ value' = <<build_request_raw(arg.provider, arg.chat_history)>>
    /\ UNCHANGED <<arg, loopVars, streamVars, callVars, serverVars>>

RawNext == BuildRequestRaw

RawInit ==
    /\ provider = "openai" /\ script = <<>> /\ runs = <<>>
    /\ StreamIdle
    /\ CallIdle
    /\ ServerIdle
    /\ arg \in RawArgs
    /\ value = <<>>

RawSpec == RawInit /\ [][RawNext]_vars

(***************************************************************************)
(* network::prompt_with_tools: the free function with the loop of all      *)
(* three providers in one `match api`.                                     *)
(***************************************************************************)
NetworkProviders == {"openai", "anthropic", "gemini"}

\* A Gemini body: candidates[0].content.parts[0].text, or no candidates.
GeminiResponse(content) == Response(TRUE, TRUE, content, Absent, None, Absent)

GeminiResponses ==
    {NetFailure, Garbage}
    \cup { GeminiResponse(SomeText(t)) : t \in Texts }
    \cup { GeminiResponse(NoText) }

NetResponses(p) == IF p = "gemini" THEN GeminiResponses ELSE Responses(p)

\* unwrap() on None or Err, a panic of build_request, a slice out of range:
\* the task unwinds, nothing is returned.
NetPanic(run) == [run EXCEPT !.pc = "panic", !.inflight = 0]

\* The finished branch: unescape, strip the quotes (the two ends are
\* tested, the length is not), push one Assistant message.
NetFinish(run, text) ==
    LET content == Strip("openai", unescape(text))
        h == Append(run.chat_history,
                    Message("Assistant", content.text, None, NoCalls, None))
    IN IF content.kind # "ok" THEN NetPanic(run)
       ELSE [run EXCEPT !.chat_history = h, !.pc = "done", !.result = Ok(h)]

\* API::OpenAI(_) => { .. }
NetHandleOpenAI(run, resp) ==
    IF resp.content.some THEN NetFinish(run, resp.content.s)
    ELSE IF resp.tool_calls.kind = "absent" THEN Fail(run, "missing")
    ELSE IF resp.tool_calls.kind = "malformed" THEN Fail(run, "json")
    ELSE BeginCalls(run,
                    Message("FunctionCall", <<>>, None, SomeCalls(resp.tool_calls.items), "?"),
                    resp.tool_calls.items)

\* API::Anthropic(_) => { .. }: stop_reason is unwrapped, a content that is
\* no array is read as no blocks.
NetHandleAnthropic(run, resp) ==
    LET blocks == IF resp.blocks.kind = "array" THEN resp.blocks.items ELSE <<>>
    IN IF resp.stop_reason = None THEN NetPanic(run)
       ELSE IF resp.stop_reason # "tool_use"
       THEN IF AnthropicText(resp).some THEN NetFinish(run, AnthropicText(resp).s)
            ELSE Fail(run, "missing")
       ELSE IF resp.blocks.kind = "absent" THEN Fail(run, "missing")
       ELSE BeginCalls(run,
                       Message("Assistant", TextContent(blocks), None,
                               SomeCalls(ToolUseCalls(blocks)), "?"),
                       ToolUseCalls(blocks))

\* `_ => {}`: nothing is read from the response, calling_tools stays true.
NetHandleOther(run, resp) == [run EXCEPT !.pc = "loop"]

\* One response through the body of `while calling_tools`.
NetHandle(p, run, resp) ==
    IF ~resp.net THEN Fail(run, "transport")
    ELSE IF ~resp.json THEN Fail(run, "json")
    ELSE IF p = "openai" THEN NetHandleOpenAI(run, resp)
    ELSE IF p = "anthropic" THEN NetHandleAnthropic(run, resp)
    ELSE NetHandleOther(run, resp)

\* build_request panics on a message it cannot translate.
NetBuildPanics(p, chat_history) ==
    IF p = "gemini"
    THEN GeminiBuildRequest(SystemPrompt, chat_history, NoTools, FALSE).kind = "panic"
    ELSE IF p = "openai"
    THEN OpenAIBuildRequest(LoopClient, SystemPrompt, chat_history, SomeTools, FALSE).kind = "panic"
    ELSE FALSE

\* tool_map.get(..).unwrap(), serde_json::from_str(..)?, spawn_blocking.
NetSpawnTool(run) ==
    LET call == run.tool_calls[run.idx]
        hit == tool_map(call.name)
        tool_args == ParseJson(call.arguments)
    IN IF ~hit.found THEN NetPanic(run)
       ELSE IF tool_args = Invalid THEN Fail(run, "invalid_args")
       ELSE [run EXCEPT !.invoked = Append(@, [name |-> hit.tool.name, args |-> tool_args]),
                        !.inflight = @ + 1, !.pc = "running"]

\* `.await?` on the task, then the FunctionCallOutput message (name: None).
NetJoin(run) ==
    LET last == run.idx >= Len(run.tool_calls)
        call == run.tool_calls[run.idx]
        tool == tool_map(call.name).tool
        output == Message("FunctionCallOutput",
                          ToJsonString(ToolCall(tool.name, ParseJson(call.arguments))),
                          call.id, NoCalls, None)
    IN IF tool.panics THEN Fail(run, "join")
       ELSE [run EXCEPT !.inflight = 0, !.idx = @ + 1,
                        !.chat_history = Append(@, output),
                        !.pc = IF last THEN "loop" ELSE "notify"]

\* The caller starts network::prompt_with_tools (tx: Option<Sender>).
NetPromptWithTools ==
    /\ runs[1].pc = "idle"
    /\ runs' = [runs EXCEPT ![1].chat_history = runs[1].input, ![1].pc = "loop"]
    /\ UNCHANGED <<provider, script, notLoopVars>>

\* get_params, build_request(&client, &params).send()
NetSendRequest ==
    /\ runs[1].pc = "loop"
    /\ runs[1].nreq < MaxTurns
    /\ runs' = IF NetBuildPanics(provider, runs[1].chat_history)
               THEN [runs EXCEPT ![1] = NetPanic(runs[1])]
               ELSE [runs EXCEPT ![1].nreq = @ + 1,
                                 ![1].requests = Append(@, runs[1].chat_history),
                                 ![1].pc = "await"]
    /\ UNCHANGED <<provider, script, notLoopVars>>

\* The response to request nreq arrives and goes through `match api`.
NetRespond ==
    /\ runs[1].pc = "await"
    /\ \E resp \in NetResponses(provider) :
         /\ script' = Append(script, resp)
         /\ runs' = [runs EXCEPT ![1] = NetHandle(provider, runs[1], resp)]
    /\ UNCHANGED <<provider, notLoopVars>>

\* t.send(..).await.unwrap(): a dropped receiver is a panic.
NetNotify ==
    /\ runs[1].pc = "notify"
    /\ ~SendBlocked(runs[1])
    /\ runs' = [runs EXCEPT ![1] =
                  IF runs[1].tx /\ ~runs[1].rxAlive THEN NetPanic(runs[1])
                  ELSE [Send(runs[1], StatusMessage(runs[1].tool_calls[runs[1].idx].name))
                          EXCEPT !.pc = "lookup"]]
    /\ UNCHANGED <<provider, script, notLoopVars>>

NetInvokeTool ==
    /\ runs[1].pc = "lookup"
    /\ runs' = [runs EXCEPT ![1] = NetSpawnTool(runs[1])]
    /\ UNCHANGED <<provider, script, notLoopVars>>

NetJoinTool ==
    /\ runs[1].pc = "running"
    /\ runs' = [runs EXCEPT ![1] = NetJoin(runs[1])]
    /\ UNCHANGED <<provider, script, notLoopVars>>

NetworkNext ==
    \/ NetPromptWithTools
    \/ NetSendRequest
    \/ NetRespond
    \/ NetNotify
    \/ NetInvokeTool
    \/ NetJoinTool
    \/ RxRecv(1)
    \/ RxDrop(1)

NetworkInit ==
    /\ provider \in NetworkProviders
    /\ script = <<>>
    /\ StreamIdle
    /\ CallIdle
    /\ ServerIdle
    /\ PureIdle
    /\ \E tx \in BOOLEAN, input \in InputHistories :
         runs = <<NewRun(tx, input, ChannelCapacity)>>

NetworkSpec == NetworkInit /\ [][NetworkNext]_vars

(***************************************************************************)
(* The mock server of mock/server.rs.  A responder is named by a string;   *)
(* a connection is one spawned handle_connection task, whose pc is the     *)
(* await point it stands at.                                               *)
(***************************************************************************)

MaxConnections == 3
MaxResponders == 2

ResponderNames == <<"r0", "r1", "r2", "r3">>
NotFound == "404"
NoAnswer == ""

\* MockRoute::new
MockRoute(path, responders) == [path |-> path, responders |-> responders]

\* The route lists a test starts the server with: a route with one or more
\* responders, a route with an empty responder list, and possibly an
\* earlier route of the same path, which the later one replaces.
RouteLists ==
    { <<MockRoute("/v1/chat", SubSeq(ResponderNames, 1, n)), MockRoute("/empty", <<>>)>> :
        n \in 1..MaxResponders }
    \cup { <<MockRoute("/v1/chat", <<"stale">>), MockRoute("/empty", <<>>),
             MockRoute("/v1/chat", SubSeq(ResponderNames, 1, MaxResponders))>> }

\* The paths requests ask for; "/missing" is never registered.
RequestPaths == {"/v1/chat", "/empty", "/missing"}

\* map.insert(route.path, RouteState { responders, call_count: 0 })
InsertRoute(map, route) ==
    [path \in DOMAIN map \cup {route.path} |->
        IF path = route.path
        THEN [responders |-> route.responders, call_count |-> 0]
        ELSE map[path]]

RECURSIVE InsertRoutes(_, _)
InsertRoutes(map, list) ==
    IF list = <<>> THEN map
    ELSE InsertRoutes(InsertRoute(map, Head(list)), Tail(list))

\* MockLLMServer::start: the routes map of the new server.
start(list) == InsertRoutes(<<>>, list)

\* A variant of RouteState::next that starts over after the last responder.
RouteStateNextWrapping(route) ==
    IF route.responders = <<>>
    THEN [response |-> None, route |-> route]
    ELSE [response |-> route.responders[(route.call_count % Len(route.responders)) + 1],
          route |-> [route EXCEPT !.call_count = @ + 1]]

\* RouteState::next: the responder handed out and the route afterwards.
RouteStateNext(route) ==
    IF route.responders = <<>>
    THEN [response |-> None, route |-> route]
    ELSE LET idx == IF route.call_count < Len(route.responders) - 1
                    THEN route.call_count ELSE Len(route.responders) - 1
         IN  [response |-> route.responders[idx + 1],
              route |-> [route EXCEPT !.call_count = @ + 1]]

\* MockServerState::next_response: routes.get_mut(path).and_then(next).
next_response(map, path) ==
    IF path \in DOMAIN map
    THEN LET next == RouteStateNext(map[path])
         IN  [response |-> next.response, routes |-> [map EXCEPT ![path] = next.route]]
    ELSE [response |-> None, routes |-> map]

\* A variant of requests_for that returns every recorded request.
RequestsUnfiltered(path) == recordings

\* MockLLMServer::requests_for
requests_for(path) == SelectSeq(recordings, LAMBDA record : record.path = path)

\* A connection that run_server has just accepted.
NewConnection ==
    [pc |-> "read", header_end |-> FALSE, path |-> "", whole |-> FALSE,
     recorded |-> 0, k |-> 0, answer |-> NoAnswer]

\* run_server: accept a connection and spawn its handler.
Accept ==
    /\ routes # <<>>
    /\ Len(connections) < MaxConnections
    /\ connections' = Append(connections, NewConnection)
    /\ UNCHANGED <<routes, recordings, notServerVars>>

\* handle_connection: a read completes the header block; the head is parsed
\* and the loop ends when the announced body is in the buffer too.
ReadHead(c) ==
    /\ connections[c].pc = "read"
    /\ \E path \in RequestPaths, whole \in BOOLEAN :
         connections' = [connections EXCEPT ![c] =
             [@ EXCEPT !.header_end = TRUE, !.path = path, !.whole = whole,
                       !.pc = IF whole THEN "record" ELSE "body"]]
    /\ UNCHANGED <<routes, recordings, notServerVars>>

\* handle_connection: a later read brings the rest of the announced body.
ReadBody(c) ==
    /\ connections[c].pc = "body"
    /\ connections' = [connections EXCEPT ![c] = [@ EXCEPT !.whole = TRUE, !.pc = "record"]]
    /\ UNCHANGED <<routes, recordings, notServerVars>>

\* handle_connection: read returns 0.  Without a header block the handler
\* returns; with one it goes on with an empty body.
ReadEof(c) ==
    /\ connections[c].pc \in {"read", "body"}
    /\ connections' = [connections EXCEPT ![c] =
           [@ EXCEPT !.pc = IF connections[c].header_end THEN "record" ELSE "closed"]]
    /\ UNCHANGED <<routes, recordings, notServerVars>>

\* handle_connection: stream.read(..).await? returns the error.
ReadError(c) ==
    /\ connections[c].pc \in {"read", "body"}
    /\ connections' = [connections EXCEPT ![c] = [@ EXCEPT !.pc = "error"]]
    /\ UNCHANGED <<routes, recordings, notServerVars>>

\* The request a handler records.
Recorded(connection) ==
    [path |-> connection.path, body |-> IF connection.whole THEN "body" ELSE ""]

\* handle_connection: state.record_request(..).await
RecordRequest(c) ==
    /\ connections[c].pc = "record"
    /\ recordings' = Append(recordings, Recorded(connections[c]))
    /\ connections' = [connections EXCEPT ![c] =
           [@ EXCEPT !.recorded = Len(recordings) + 1, !.pc = "select"]]
    /\ UNCHANGED <<routes, notServerVars>>

\* handle_connection: state.next_response(&path).await
NextResponse(c) ==
    /\ connections[c].pc = "select"
    /\ LET path == connections[c].path
           next == next_response(routes, path)
       IN  /\ routes' = next.routes
           /\ connections' = [connections EXCEPT ![c] =
                  [@ EXCEPT !.k = IF path \in DOMAIN routes THEN routes[path].call_count ELSE 0,
                            !.answer = IF next.response = None THEN NotFound ELSE next.response,
                            !.pc = "send"]]
    /\ UNCHANGED <<recordings, notServerVars>>

\* handle_connection: send_response or send_not_found; write_all may fail.
SendResponse(c) ==
    /\ connections[c].pc = "send"
    /\ \E written \in BOOLEAN :
         connections' = [connections EXCEPT ![c] =
             [@ EXCEPT !.pc = IF written THEN "done" ELSE "unsent"]]
    /\ UNCHANGED <<routes, recordings, notServerVars>>

MockNext ==
    \/ Accept
    \/ \E c \in 1..Len(connections) : ReadHead(c)
    \/ \E c \in 1..Len(connections) : ReadBody(c)
    \/ \E c \in 1..Len(connections) : ReadEof(c)
    \/ \E c \in 1..Len(connections) : ReadError(c)
    \/ \E c \in 1..Len(connections) : RecordRequest(c)
    \/ \E c \in 1..Len(connections) : NextResponse(c)
    \/ \E c \in 1..Len(connections) : SendResponse(c)

\* After MockLLMServer::start: no connection yet, nothing recorded.
MockInit ==
    /\ provider = "openai" /\ script = <<>> /\ runs = <<>>
    /\ StreamIdle
    /\ CallIdle
    /\ PureIdle
    /\ \E list \in RouteLists : routes = start(list)
    /\ recordings = <<>>
    /\ connections = <<>>

MockSpec == MockInit /\ [][MockNext]_vars

(***************************************************************************)
(* Vocabulary of the properties of the tool loop.                          *)
(***************************************************************************)
\* The call the properties of Spec speak about.
Run == runs[1]

Registered(name) == \E i \in 1..Len(Tools) : Tools[i].name = name

\* The calls a response lists, as the provider wrote them.
ListedCalls(p, resp) ==
    IF p = "openai"
    THEN (IF resp.tool_calls.kind = "array" THEN resp.tool_calls.items ELSE <<>>)
    ELSE (IF resp.blocks.kind = "array"
          THEN SelectSeq(resp.blocks.items, LAMBDA b : b.type = "tool_use")
          ELSE <<>>)

\* The response requested tool use: OpenAI, content absent and tool_calls
\* present; Anthropic, stop_reason equal to "tool_use".
RequestedToolUse(p, resp) ==
    /\ resp.net /\ resp.json
    /\ IF p = "openai"
       THEN ~resp.content.some /\ resp.tool_calls.kind # "absent"
       ELSE resp.stop_reason = "tool_use"

\* The text of a plain-text answer, or NoText.
AnswerText(p, resp) ==
    IF ~(resp.net /\ resp.json) THEN NoText
    ELSE IF p = "openai" THEN resp.content
    ELSE IF resp.stop_reason # "tool_use" /\ resp.blocks.kind = "array"
            /\ Len(resp.blocks.items) >= 1
    THEN resp.blocks.items[1].text
    ELSE NoText

\* What the two texts of the model decode to, spelled out.
Decoded(t) == IF t = QuotedText THEN <<"a", NL>> ELSE t

\* The stringified output of the echo tool for the argument documents.
EchoOutput(name, id) ==
    IF id \in {"call-1", "toolu-1"} THEN ArgsCompact ELSE ArgsTwo

\* The first response requests exactly one call of a registered tool and the
\* second is a plain-text answer.
TwoTurnExchange ==
    /\ Len(script) = 2
    /\ RequestedToolUse(provider, script[1])
    /\ Len(ListedCalls(provider, script[1])) = 1
    /\ Registered(ListedCalls(provider, script[1])[1].name)
    /\ AnswerText(provider, script[2]).some

IsToolResultFor(msg, call) ==
    /\ msg.message_type = "FunctionCallOutput"
    /\ msg.tool_call_id = call.id
    /\ msg.content = EchoOutput(call.name, call.id)
    /\ msg.name = call.name
    /\ ~msg.tool_calls.some

IsAnswer(msg, text) ==
    msg = Message("Assistant", Decoded(text), None, NoCalls, None)

(***************************************************************************)
(* C1: in a two-turn exchange (one call of a registered tool, then a plain *)
(* answer) started on the history [User], the call returns exactly the     *)
(* four messages User, tool-call message, ToolResult with the tool's       *)
(* stringified output and the call's id, Assistant with the decoded text,  *)
(* and exactly two requests were sent.                                     *)
(***************************************************************************)
C1_ToolLoopSequence ==
    (TwoTurnExchange /\ Run.input = <<UserMessage>>) =>
        LET call == ListedCalls(provider, script[1])[1]
            h == Run.result.history
        IN /\ Run.pc = "done"
           /\ Run.result.ok
           /\ Len(h) = 4
           /\ h[1] = UserMessage
           /\ h[2].tool_calls.some
           /\ Len(h[2].tool_calls.calls) = 1
           /\ h[2].tool_calls.calls[1].id = call.id
           /\ h[2].tool_calls.calls[1].name = call.name
           /\ h[2].message_type = (IF provider = "openai" THEN "FunctionCall" ELSE "Assistant")
           /\ IsToolResultFor(h[3], call)
           /\ IsAnswer(h[4], AnswerText(provider, script[2]).s)
           /\ Run.nreq = 2
           /\ Len(Run.requests) = 2

C1_Witness ==
    /\ TwoTurnExchange
    /\ Run.input = <<UserMessage>>
    /\ provider = "anthropic"
    /\ AnswerText(provider, script[2]).s = QuotedText
    /\ Run.pc = "done"

(***************************************************************************)
(* The responses the run has handled: all but the one still in flight.     *)
(***************************************************************************)
Handled == IF Run.pc = "await" THEN Run.nreq - 1 ELSE Run.nreq

ToolUseCount == Cardinality({ k \in 1..Handled : RequestedToolUse(provider, script[k]) })

\* The run has returned, with a history or with an error.
Returned == Run.pc \in {"done", "error"}

\* A request follows a response only if that response requested tool use.
RequestOnlyAfterToolUse ==
    \A k \in 2..Run.nreq : RequestedToolUse(provider, script[k-1])

\* Handling a finished response appends exactly one Assistant message with
\* the decoded text, ends the loop, and N tool-use responses mean N + 1
\* requests.
FinishedResponseEndsLoop ==
    Run.pc = "done" =>
        /\ AnswerText(provider, script[Run.nreq]).some
        /\ Run.result.ok
        /\ Run.result.history =
             Append(Run.requests[Run.nreq],
                    Message("Assistant", Decoded(AnswerText(provider, script[Run.nreq]).s),
                            None, NoCalls, None))
        /\ Len(Run.requests) = Run.nreq
        /\ Len(script) = Run.nreq
        /\ Run.nreq = ToolUseCount + 1
        /\ ~ENABLED SendRequest(1)

(***************************************************************************)
(* C2 as stated: a new request is sent if and only if the previous         *)
(* response requested tool use, so a call that has returned did so on a    *)
(* response that did not request it; a finished response appends one       *)
(* Assistant message and ends the loop; a successful call sends            *)
(* (tool-use responses + 1) requests.                                      *)
(***************************************************************************)
C2_AsStated ==
    /\ RequestOnlyAfterToolUse
    /\ (Returned => ~RequestedToolUse(provider, script[Run.nreq]))
    /\ FinishedResponseEndsLoop

(***************************************************************************)
(* C2 amended: a new request is sent only if the previous response         *)
(* requested tool use, and it is sent whenever the calls of such a         *)
(* response were decoded and executed without error; a tool-use turn that  *)
(* fails (call list missing or undecodable, unknown tool, invalid          *)
(* arguments, tool panic) ends the call with that error and without a      *)
(* request. The finished branch and the request count are as stated.       *)
(***************************************************************************)
C2_RequestIffToolUseTurnCompleted ==
    /\ RequestOnlyAfterToolUse
    /\ (Returned /\ RequestedToolUse(provider, script[Run.nreq])) =>
           /\ Run.pc = "error"
           /\ Run.result.err \in {"missing", "json", "tool_not_found", "invalid_args", "join"}
    /\ (/\ Run.pc = "loop" /\ Run.nreq >= 1 /\ Run.nreq < MaxTurns) =>
           /\ RequestedToolUse(provider, script[Run.nreq])
           /\ ENABLED SendRequest(1)
    /\ FinishedResponseEndsLoop

C2_Witness ==
    /\ Run.pc = "done"
    /\ Run.nreq = 3
    /\ ToolUseCount = 2
    /\ Len(Run.invoked) >= 2

(***************************************************************************)
(* The part of the history the loop appended.                              *)
(***************************************************************************)
Base == Len(Run.input)

Appended == Base + 1 .. Len(Run.chat_history)

\* Positions of the tool-call messages the loop appended.
CallTurns == { k \in Appended : Run.chat_history[k].tool_calls.some }

\* The messages that follow tool-call message k up to the next message that
\* is not a tool result.
ResultsAfter(k) ==
    { j \in Appended :
        /\ j > k
        /\ \A i \in k+1..j : Run.chat_history[i].message_type = "FunctionCallOutput" }

\* The tool-call message nearest before position j.
NearestTurn(j) == CHOOSE k \in CallTurns : k < j /\ \A m \in CallTurns : m < j => m <= k

\* The tool results the loop appended, in history order.
AppendedResults ==
    SelectSeq(SubSeq(Run.chat_history, Base + 1, Len(Run.chat_history)),
              LAMBDA msg : msg.message_type = "FunctionCallOutput")

(***************************************************************************)
(* C3: for every tool-use turn listing calls c1..cn the tools run in that  *)
(* order and the n messages directly after the tool-call message are the   *)
(* ToolResults r1..rn, ri with the id of ci and the output of ci's tool;   *)
(* so every ToolResult carries the id of a call of the nearest preceding   *)
(* tool-call message.                                                      *)
(***************************************************************************)
C3_ResultsFollowCallsInOrder ==
    /\ \A k \in CallTurns :
         LET calls == Run.chat_history[k].tool_calls.calls
         IN /\ Cardinality(ResultsAfter(k)) <= Len(calls)
            /\ \A j \in ResultsAfter(k) : IsToolResultFor(Run.chat_history[j], calls[j - k])
            /\ (Run.pc \in {"done", "loop", "await"} \/ k < Len(Run.chat_history) - Len(calls))
                  => Cardinality(ResultsAfter(k)) = Len(calls)
    /\ \A j \in Appended :
         Run.chat_history[j].message_type = "FunctionCallOutput" =>
            /\ \E k \in CallTurns : k < j
            /\ j \in ResultsAfter(NearestTurn(j))
    \* the tools ran in the order of the results
    /\ Len(Run.invoked) \in {Len(AppendedResults), Len(AppendedResults) + 1}
    /\ \A m \in 1..Len(AppendedResults) :
         /\ Run.invoked[m].name = AppendedResults[m].name
         /\ ToJsonString(Run.invoked[m].args) = AppendedResults[m].content
    /\ Len(Run.invoked) = Len(AppendedResults) + 1 => Run.result.err = "join" \/ Run.pc = "running"

C3_Witness ==
    /\ Run.pc = "done"
    /\ \E k \in CallTurns :
         /\ Len(Run.chat_history[k].tool_calls.calls) = 2
         /\ Run.chat_history[k + 2].tool_call_id = Run.chat_history[k].tool_calls.calls[2].id
         /\ Run.chat_history[k + 1].content # Run.chat_history[k + 2].content

(***************************************************************************)
(* C4: a call that names a tool outside the tool set, or whose arguments   *)
(* are not valid JSON, makes the call return an error: the tool is not     *)
(* invoked, no later call of the turn runs, no further request is sent and *)
(* no conversation is returned.                                            *)
(***************************************************************************)
CurrentCall == Run.tool_calls[Run.idx]

BadCall(call) == ~Registered(call.name) \/ ParseJson(call.arguments) = Invalid

C4_BadToolCallTerminates ==
    \* a bad call never reaches the tool
    /\ Run.pc = "running" => ~BadCall(CurrentCall)
    /\ \A m \in 1..Len(Run.invoked) : Registered(Run.invoked[m].name) /\ Run.invoked[m].args # Invalid
    \* the error ends the turn and the call
    /\ (Run.pc = "error" /\ Run.result.err \in {"tool_not_found", "invalid_args"}) =>
          /\ BadCall(CurrentCall)
          /\ Run.result.err = (IF Registered(CurrentCall.name) THEN "invalid_args" ELSE "tool_not_found")
          /\ Len(Run.invoked) = Len(AppendedResults)
          /\ Run.inflight = 0
          /\ Cardinality(ResultsAfter(NearestTurn(Len(Run.chat_history) + 1))) = Run.idx - 1
          /\ Len(Run.requests) = Len(script)
          /\ ~Run.result.ok
          /\ Run.result.history = <<>>
          /\ \A r \in DOMAIN runs : ~ENABLED InvokeTool(r) /\ ~ENABLED SendRequest(r)
    \* every turn stops at its first bad call
    /\ (Run.pc \in {"notify", "lookup", "running"}) =>
          \A i \in 1..Run.idx - 1 : ~BadCall(Run.tool_calls[i])
    /\ (Run.pc \in {"done", "loop", "await"}) =>
          \A k \in CallTurns : \A i \in 1..Len(Run.chat_history[k].tool_calls.calls) :
              ~BadCall(Run.chat_history[k].tool_calls.calls[i])

C4_Witness ==
    /\ Run.pc = "error"
    /\ Run.result.err = "invalid_args"
    /\ Run.idx = 2
    /\ Len(Run.tool_calls) = 3
    /\ Len(Run.invoked) = 1

(***************************************************************************)
(* C5: a transport failure, an unparsable body, or a response with neither *)
(* finished content nor tool calls makes the call return an error at once: *)
(* the request is not sent again, no later request is sent, and the caller *)
(* gets the error without the partially extended conversation.             *)
(***************************************************************************)
\* Neither the finished content nor the tool calls are in the response.
MissingBoth(p, resp) ==
    /\ resp.net /\ resp.json
    /\ IF p = "openai"
       THEN ~resp.content.some /\ resp.tool_calls.kind = "absent"
       ELSE /\ ~(resp.stop_reason # "tool_use" /\ AnswerText(p, resp).some)
            /\ ~(resp.stop_reason = "tool_use" /\ resp.blocks.kind = "array")

FailedResponse(p, resp) == ~resp.net \/ ~resp.json \/ MissingBoth(p, resp)

C5_FailedResponseTerminates ==
    \A k \in 1..Handled :
        FailedResponse(provider, script[k]) =>
            /\ k = Run.nreq
            /\ k = Len(script)
            /\ Len(Run.requests) = k
            \* at once: nothing was appended or run after the request went out
            /\ Run.chat_history = Run.requests[k]
            /\ Run.inflight = 0
            /\ Run.pc = "error"
            /\ Run.result.err = (IF ~script[k].net THEN "transport"
                                 ELSE IF ~script[k].json THEN "json" ELSE "missing")
            /\ ~Run.result.ok
            /\ Run.result.history = <<>>
            /\ ~ENABLED SendRequest(1)
            /\ ~ENABLED Respond(1)

C5_Witness ==
    /\ Run.pc = "error"
    /\ Run.result.err = "missing"
    /\ Run.nreq = 2
    /\ Len(Run.invoked) = 1
    /\ Len(Run.chat_history) > Len(Run.input)

(***************************************************************************)
(* The observer channel of a run.                                          *)
(***************************************************************************)
IsStatus(msg) == Len(msg) = 3 /\ msg[1] = "calling tool " /\ msg[3] = "..."

\* The status messages put on the channel so far.
StatusSent(run) == SelectSeq(run.delivered, IsStatus)

\* The observer was listening during the whole call.
Observed(run) == run.tx /\ run.rxAlive

\* What is still in the channel is the tail of what was put on it.
ChannelIsTail(run) ==
    /\ Len(run.chan) <= Len(run.delivered)
    /\ run.chan = SubSeq(run.delivered, Len(run.delivered) - Len(run.chan) + 1,
                         Len(run.delivered))

\* The original statement of C6: in a two-turn exchange with one tool call
\* the observer channel carries exactly one message, the status of the call.
C6_AsStated ==
    (TwoTurnExchange /\ Observed(Run)) =>
        Run.delivered = <<StatusMessage(ListedCalls(provider, script[1])[1].name)>>

(***************************************************************************)
(* C6 (amended): in a two-turn exchange with one tool call the observer    *)
(* channel carries exactly one "calling tool <name>..." message, put there *)
(* before the tool runs; for OpenAI it is the only message, for Anthropic  *)
(* the warning "warn: anthropic tool support is experimental" comes before *)
(* it; once these are received the channel is empty.                       *)
(***************************************************************************)
C6_OneStatusPerCall ==
    /\ (TwoTurnExchange /\ Observed(Run)) =>
         LET name == ListedCalls(provider, script[1])[1].name
         IN /\ Run.delivered = (IF provider = "anthropic" THEN <<WarnMessage>> ELSE <<>>)
                                  \o <<StatusMessage(name)>>
            /\ StatusSent(Run) = <<StatusMessage(name)>>
            /\ ChannelIsTail(Run)
            /\ \A r \in DOMAIN runs : ~ENABLED NotifyStatus(r) /\ ~ENABLED WarnExperimental(r)
    \* the status of a call is on the channel before its tool runs
    /\ Observed(Run) =>
         /\ Len(Run.invoked) <= Len(StatusSent(Run))
         /\ \A m \in 1..Len(Run.invoked) :
              StatusSent(Run)[m] = StatusMessage(Run.invoked[m].name)

C6_Witness ==
    /\ TwoTurnExchange
    /\ Observed(Run)
    /\ provider = "anthropic"
    /\ Run.pc = "done"
    /\ Len(Run.delivered) = 2
    /\ Run.chan = <<>>

(***************************************************************************)
(* C7: status notifications are best effort.  When the observer's receiver *)
(* is dropped before or during prompt_with_tools_with_status, no send      *)
(* failure stops the call, every requested tool still runs, and the call   *)
(* returns what prompt_with_tools returns for the same responses.          *)
(***************************************************************************)
Plain == runs[1]

WithStatus == runs[2]

C7_StatusBestEffort ==
    Len(runs) = 2 =>
        /\ WithStatus.result.err # "send"
        \* a dropped receiver never holds the call up
        /\ (~WithStatus.rxAlive /\ WithStatus.pc = "warn") => ENABLED WarnExperimental(2)
        /\ (~WithStatus.rxAlive /\ WithStatus.pc = "notify") => ENABLED NotifyStatus(2)
        /\ Stopped(WithStatus) =>
             /\ WithStatus.pc = Plain.pc
             /\ WithStatus.result = Plain.result
             /\ WithStatus.invoked = Plain.invoked
             /\ WithStatus.chat_history = Plain.chat_history
             /\ WithStatus.requests = Plain.requests

C7_Witness ==
    /\ Len(runs) = 2
    /\ ~WithStatus.rxAlive
    /\ WithStatus.pc = "done"
    /\ Len(WithStatus.invoked) >= 2
    /\ Len(StatusSent(WithStatus)) < Len(WithStatus.invoked)
    /\ WithStatus.result.history = Plain.result.history

(***************************************************************************)
(* Vocabulary of the properties of the stream decoders.                    *)
(***************************************************************************)
\* The lines the decoder has read.
LinesRead == SubSeq(stream, 1, pos)

\* A delta event: a data line whose payload is JSON carrying a string at the
\* path of the delta (for Anthropic inside a content_block_delta event).
IsDeltaEvent(d, line) ==
    /\ line.prefix = "data" /\ line.payload = "json"
    /\ line.event.text.j = "string"
    /\ d # "openai" => line.event.type = "content_block_delta"

\* The unescape-and-unquote normalization of a delta text as it stands in
\* the payload.
Normalized(t) == StripQuotes(unescape(<<DQ>> \o Escape(t) \o <<DQ>>))

RECURSIVE DeltasOf(_, _)
\* The normalized texts of the delta events among lines, in order.
DeltasOf(d, lines) ==
    IF lines = <<>> THEN <<>>
    ELSE (IF IsDeltaEvent(d, lines[1]) THEN <<Normalized(lines[1].event.text.s)>> ELSE <<>>)
         \o DeltasOf(d, Tail(lines))

RECURSIVE Concat(_)
Concat(texts) == IF texts = <<>> THEN <<>> ELSE texts[1] \o Concat(Tail(texts))

\* A terminator in the words of the specification.
IsTerminator(d, line) ==
    \/ line.prefix = "data" /\ line.payload \in {"done", "empty"}
    \/ d \in {"anthropic", "network_anthropic"} /\ line.prefix = "stop"

\* The stream is a sequence of delta events followed by the terminator.
DeltasThenTerminator ==
    /\ Len(stream) >= 1
    /\ \A i \in 1..Len(stream) - 1 : IsDeltaEvent(decoder, stream[i])
    /\ IsTerminator(decoder, stream[Len(stream)])

(***************************************************************************)
(* C8, as stated: for both clients' decoders, on a sequence of delta       *)
(* events followed by the terminator the observer receives exactly one     *)
(* message per delta event in arrival order, at every step the accumulator *)
(* is the concatenation of the messages sent so far, and the returned text *)
(* is the concatenation of all of them.                                    *)
(***************************************************************************)
C8_AsStated ==
    (/\ decoder \in {"openai", "anthropic"}
     /\ DeltasThenTerminator
     /\ rx_alive) =>
        /\ outcome \in {"reading", "ok"}
        /\ Len(emitted) = Len(DeltasOf(decoder, LinesRead))
        /\ emitted = DeltasOf(decoder, LinesRead)
        /\ full_message = Concat(emitted)
        /\ outcome = "ok" => full_message = Concat(DeltasOf(decoder, stream))

(***************************************************************************)
(* C9: a line without the `data: ` prefix changes neither the accumulator  *)
(* nor the observer channel; the first `data: ` line with payload [DONE]   *)
(* or empty (for Anthropic also `event: message_stop`) ends decoding with  *)
(* success and the text accumulated so far; afterwards no line is read,    *)
(* nothing is emitted and the result stays a success.                      *)
(***************************************************************************)
C9_SkipAndTerminate ==
    /\ [][(Reading /\ pos' = pos + 1 /\ NextLine.prefix # "data")
             => /\ full_message' = full_message
                /\ emitted' = emitted
                /\ channel' = channel
                /\ outcome' = (IF IsTerminator(decoder, NextLine) THEN "ok" ELSE "reading")]_vars
    /\ [][(Reading /\ pos' = pos + 1 /\ IsTerminator(decoder, NextLine))
             => /\ outcome' = "ok"
                /\ full_message' = full_message
                /\ emitted' = emitted]_vars
    /\ [][outcome = "ok"
             => /\ outcome' = "ok"
                /\ pos' = pos
                /\ full_message' = full_message
                /\ emitted' = emitted]_vars
    \* a terminator line that has been read has ended the decoding
    /\ [](\A i \in 1..pos : IsTerminator(decoder, stream[i]) => (i = pos /\ outcome = "ok"))

C9_Witness ==
    /\ outcome = "ok"
    /\ pos = 2
    /\ IsTerminator(decoder, stream[2])
    /\ full_message # <<>>
    /\ Len(stream) = 3
    /\ stream[3] = GarbageLine

(***************************************************************************)
(* C10, as stated: the Anthropic decoders emit the normalized text of      *)
(* every data event of type content_block_delta that carries a string      *)
(* delta.text, whatever the text, and nothing for events of another type.  *)
(***************************************************************************)
\* Every content_block_delta event read so far carries a string text.
TextDeltasOnly ==
    \A i \in 1..pos :
        (stream[i].payload = "json" /\ stream[i].event.type = "content_block_delta")
            => stream[i].event.text.j = "string"

C10_AsStated ==
    (/\ decoder \in {"anthropic", "network_anthropic"}
     /\ rx_alive
     /\ TextDeltasOnly) =>
        /\ outcome # "panic"
        /\ emitted = DeltasOf(decoder, LinesRead)

(***************************************************************************)
(* Vocabulary of the properties of the Gemini decoder.                     *)
(***************************************************************************)
Hi == <<"H", "i">>

\* The three chunks `[`, the object, `]`, each a chunk of its own.
ThreeChunks == Flatten(<<Chunk(<<"[">>), Chunk(ObjHi), Chunk(<<"]">>)>>)

\* The two chunks `[` followed by the object, and `]`.
TwoChunks == Flatten(<<Chunk(<<"[">> \o ObjHi), Chunk(<<"]">>)>>)

\* The original statement of C11: the chunks `[`, the object and `]`, in
\* this order, decode to "Hi" with the one delta "Hi".
C11_AsStated ==
    (stream = ThreeChunks /\ rx_alive /\ outcome # "reading") =>
        /\ outcome = "ok"
        /\ full_message = Hi
        /\ emitted = <<Hi>>

(***************************************************************************)
(* C11 (amended): given a first chunk that is `[` directly followed by the *)
(* object carrying "Hi", and then the chunk `]`, the decoder returns "Hi", *)
(* pushes exactly the one delta "Hi" and ends cleanly on `]`, for which it *)
(* emits nothing.                                                          *)
(***************************************************************************)
C11_HiThenEnd ==
    (stream \in {TwoChunks, send_chunked_response(<<ObjHi>>)} /\ rx_alive) =>
        /\ outcome \in {"reading", "ok"}
        /\ emitted \in {<<>>, <<Hi>>}
        /\ full_message = Concat(emitted)
        /\ outcome = "ok" =>
             /\ full_message = Hi
             /\ emitted = <<Hi>>
             /\ stream[pos] = "]"
             /\ ~ENABLED GeminiChunk

C11_Witness ==
    /\ stream = TwoChunks
    /\ rx_alive
    /\ outcome = "ok"
    /\ emitted = <<Hi>>
    /\ full_message = Hi

(***************************************************************************)
(* C12: on a stream framed as the mock frames it the decoder emits the     *)
(* text of every object in order, returns their concatenation, stops at    *)
(* `]`, and reads exactly the announced bytes of each chunk: after every   *)
(* pass it stands at the end of a line of the header or of a chunk.        *)
(***************************************************************************)
ObjectSeqs == UNION { [1..n -> Objects] : n \in 0..MaxChunks }

\* The stream is what the mock writes for some objects.
FramedByMock == \E objects \in ObjectSeqs : stream = send_chunked_response(objects)

MockObjects == CHOOSE objects \in ObjectSeqs : stream = send_chunked_response(objects)

\* The bytes up to the end of the chunk of object k, its line break included.
ChunkEnd(k) == Len(Header) + Len(ObjectChunks(0, SubSeq(MockObjects, 1, k)))

\* The bytes up to and including the body of the chunk `]`.
EndMark == ChunkEnd(Len(MockObjects)) + 4

\* The objects whose chunks have been read.
ObjectsRead == Cardinality({ k \in 1..Len(MockObjects) : ChunkEnd(k) <= pos })

RECURSIVE TextsOf(_)
TextsOf(objects) ==
    IF objects = <<>> THEN <<>>
    ELSE (IF Len(objects[1]) > 2 THEN <<ObjectText(objects[1])>> ELSE <<>>)
         \o TextsOf(Tail(objects))

C12_MockFraming ==
    (FramedByMock /\ rx_alive) =>
        /\ outcome \in {"reading", "ok"}
        /\ pos \in {0, Len(Header) - 2, EndMark}
                     \cup { ChunkEnd(k) : k \in 0..Len(MockObjects) }
        /\ emitted = TextsOf(SubSeq(MockObjects, 1, ObjectsRead))
        /\ full_message = Concat(emitted)
        /\ outcome = "ok" <=> pos = EndMark
        /\ outcome = "ok" => emitted = TextsOf(MockObjects)

C12_Witness ==
    /\ FramedByMock
    /\ rx_alive
    /\ outcome = "ok"
    /\ Len(MockObjects) = 3
    /\ Len(emitted) = 2
    /\ emitted[1] # emitted[2]
    /\ pos = Len(stream) - 7

(***************************************************************************)
(* C13, as stated: a size line that parses as 0, or that is no hexadecimal *)
(* number, is skipped: no chunk body is read for it, nothing is emitted    *)
(* and decoding goes on with the next line.                                *)
(***************************************************************************)
\* The line at pos, trimmed.
LineAt == Trim(SubSeq(stream, pos + 1, LineEnd(pos)))

C13_AsStated ==
    [][(/\ Decoding
        /\ pos < Len(stream)
        /\ LineAt # <<>>
        /\ FromStrRadix16(LineAt) <= 0
        /\ <<pos, outcome>>' # <<pos, outcome>>)
          => /\ pos' = LineEnd(pos)
             /\ outcome' = "reading"
             /\ emitted' = emitted
             /\ full_message' = full_message]_vars

(***************************************************************************)
(* C14: on a client whose scheme is not HTTPS prompt_stream returns an     *)
(* error at once: no socket is opened, no request is built or written, no  *)
(* key is looked up and nothing is pushed to the observer.                 *)
(***************************************************************************)
C14_PlaintextStreamRefused ==
    (/\ client.pc \notin {"new", "ready"}
     /\ client.method = "prompt_stream"
     /\ client.scheme # "https") =>
        /\ client.trace = <<>>
        /\ client.pc \in {"guard", "done"}
        /\ client.pc = "done" => client.result = "unsupported"

C14_Witness ==
    /\ client.method = "prompt_stream"
    /\ client.provider = "gemini"
    /\ client.scheme = "http"
    /\ client.key_set
    /\ client.pc = "done"
    /\ client.result = "unsupported"

(***************************************************************************)
(* C15: constructing a client does no I/O and looks up no secret, and when *)
(* the provider's API key is not set every prompt method fails before a    *)
(* request is sent and before a socket is opened.                          *)
(***************************************************************************)
C15_ConfigurationFirst ==
    /\ client.pc = "ready" => client.trace = <<>>
    /\ (client.pc # "idle" /\ ~client.key_set) =>
         /\ \A event \in NetworkEvents : ~Did(event)
         /\ ~Did("request") /\ ~Did("push")
         /\ client.pc = "done" => client.result \in {"panic", "unsupported"}
         /\ client.result = "panic" => client.trace[Len(client.trace)] = "env"
    \* with the key set, the lookup still precedes all network activity
    /\ (client.pc # "idle" /\ \E event \in NetworkEvents : Did(event)) =>
         /\ Did("env")
         /\ client.key_set

C15_Witness ==
    /\ ~client.key_set
    /\ client.method = "prompt_with_tools"
    /\ client.provider = "anthropic"
    /\ client.pc = "done"
    /\ client.result = "panic"

(***************************************************************************)
(* Vocabulary of the properties of read_json_response.                     *)
(***************************************************************************)
NamedPath(p) ==
    CASE p = "openai" -> "choices[0].message.content"
      [] p = "anthropic" -> "content[0].text"
      [] OTHER -> "candidates[0].content.parts[0].text"

EmptyObject == ValueObject(<<>>)

\* C16: read_json_response on a document in which a step of the provider's
\* path is absent or of the wrong kind, the empty object included, returns
\* an error whose message names that path: no panic, no text.
C16_BrokenPathIsNamedError ==
    (Len(value) = 1 /\ ~arg.whole) =>
        /\ value[1].kind = "err"
        /\ value[1].text = <<>>
        /\ \E i \in 1..Len(value[1].err) : value[1].err[i] = NamedPath(arg.provider)

C16_Witness ==
    /\ Len(value) = 1
    /\ arg.doc = EmptyObject
    /\ arg.provider = "gemini"
    /\ value[1].kind = "err"

(***************************************************************************)
(* Vocabulary of the properties of the text normalization.                 *)
(***************************************************************************)
Wrapped(s) == Len(s) >= 2 /\ s[1] = DQ /\ s[Len(s)] = DQ

Inner(s) == SubSeq(s, 2, Len(s) - 1)

OneQuote == <<DQ>>

\* C17: the non-streaming prompt of every client returns the unescaped text
\* without its wrapping quotes if it starts and ends with a double quote
\* and has length at least two, and the unescaped text unchanged otherwise,
\* a single double quote included; it does not fail.  (As stated; OpenAI's
\* prompt fails on a single double quote.)
C17_AsStated ==
    Len(value) = 1 =>
        LET content == unescape(arg.text)
        IN /\ value[1].kind = "ok"
           /\ value[1].text = IF Wrapped(content) THEN Inner(content) ELSE content

\* C18: normalizing a normalized text changes nothing.  (As stated; a text
\* with a doubled escape or doubled wrapping quotes changes again.)
C18_AsStated ==
    Len(value) = 2 => value[2] = value[1]

(***************************************************************************)
(* Vocabulary of the properties of the Anthropic translation.              *)
(***************************************************************************)
IsResult(m) == m.message_type = "FunctionCallOutput"

\* The message at k is not a result that directly follows a result.
StartsEntry(h, k) == ~(IsResult(h[k]) /\ k > 1 /\ IsResult(h[k - 1]))

\* The position, in the translation, of the entry that holds message i.
Place(h, i) == Cardinality({ k \in 1..i : StartsEntry(h, k) })

\* The maximal runs of adjacent results.
MaximalRuns(h) ==
    { run \in (1..Len(h)) \X (1..Len(h)) :
        /\ run[1] <= run[2]
        /\ \A k \in run[1]..run[2] : IsResult(h[k])
        /\ (run[1] = 1 \/ ~IsResult(h[run[1] - 1]))
        /\ (run[2] = Len(h) \/ ~IsResult(h[run[2] + 1])) }

HasId(m) == m.tool_call_id # None

\* The ids of the results of a run, in conversation order.
RunIds(h, run) ==
    LET carrying == SelectSeq(SubSeq(h, run[1], run[2]), HasId)
    IN [k \in 1..Len(carrying) |-> carrying[k].tool_call_id]

IsResultEntry(entry) == entry.role = "user" /\ entry.content.kind = "array"

RunExample ==
    <<UserMessage, ResultMessage("1"), ResultMessage("2"),
      Message("Assistant", <<>>, None, SomeCalls(<<OAEcho1>>), None)>>

\* C19: the translation holds exactly one role=user entry for every maximal
\* run of adjacent ToolResult messages, at the run's place in the
\* conversation; its content array holds one tool_result block for each
\* result of the run in order, with the result's id (a ToolResult carries
\* its tool_call_id; one without an id has no block).  Runs separated by
\* another message have separate entries.
C19_RunsCoalesced ==
    Len(value) = 1 =>
        LET out == value[1]
        IN /\ Len(out) = Place(arg, Len(arg))
           /\ \A run \in MaximalRuns(arg) :
                LET entry == out[Place(arg, run[1])]
                IN /\ Place(arg, run[2]) = Place(arg, run[1])
                   /\ IsResultEntry(entry)
                   /\ Len(entry.content.items) = Len(RunIds(arg, run))
                   /\ \A k \in 1..Len(entry.content.items) :
                        /\ entry.content.items[k].type = "tool_result"
                        /\ entry.content.items[k].tool_use_id = RunIds(arg, run)[k]
           /\ Cardinality({ k \in 1..Len(out) : IsResultEntry(out[k]) })
                = Cardinality(MaximalRuns(arg))

C19_Witness ==
    /\ arg = RunExample
    /\ Len(value) = 1
    /\ Len(value[1]) = 3
    /\ value[1][2].role = "user"
    /\ Len(value[1][2].content.items) = 2
    /\ value[1][2].content.items[1].tool_use_id = "1"
    /\ value[1][2].content.items[2].tool_use_id = "2"

CallsOf(m) == IF m.tool_calls.some THEN m.tool_calls.calls ELSE <<>>

ParsedArguments(call) ==
    IF ParseJson(call.arguments) = Invalid THEN "VNull" ELSE ParseJson(call.arguments)

\* C20: an Assistant message becomes one role=assistant entry whose content
\* array is a text block, present exactly if the text is not empty, followed
\* by one tool_use block per tool call in call order with the call's id,
\* name and parsed arguments (null if they do not parse).
C20_AssistantContent ==
    Len(value) = 1 =>
        \A i \in 1..Len(arg) :
            arg[i].message_type = "Assistant" =>
                LET entry == value[1][Place(arg, i)]
                    items == entry.content.items
                    calls == CallsOf(arg[i])
                    off == IF arg[i].content # <<>> THEN 1 ELSE 0
                IN /\ entry.role = "assistant"
                   /\ entry.content.kind = "array"
                   /\ Len(items) = off + Len(calls)
                   /\ off = 1 => (items[1].type = "text" /\ items[1].text.s = arg[i].content)
                   /\ \A k \in 1..Len(calls) :
                        /\ items[off + k].type = "tool_use"
                        /\ items[off + k].id = calls[k].id
                        /\ items[off + k].name = calls[k].name
                        /\ items[off + k].input = ParsedArguments(calls[k])

C20_Witness ==
    /\ Len(value) = 1
    /\ Len(arg) = 2
    /\ arg[1] = Message("Assistant", <<"A">>, None, SomeCalls(<<OAEcho2, OABadArgs>>), None)
    /\ arg[2] = Message("Assistant", <<>>, None, SomeCalls(<<OAEcho1>>), None)
    /\ Len(value[1][1].content.items) = 3
    /\ value[1][1].content.items[1].type = "text"
    /\ value[1][2].content.items[1].type = "tool_use"

(***************************************************************************)
(* Vocabulary of the properties of the request translators.                *)
(***************************************************************************)
Translated == Len(value) = 1

BuildFailed == value[1].kind = "panic"

\* Every message of h has its own entry in the OpenAI body, after the
\* system message.
InOpenAIBody(h, body) ==
    /\ Len(body.messages) = Len(h) + 1
    /\ \A i \in 1..Len(h) : body.messages[i + 1].content = h[i].content

\* Every message of h has its own entry in the Gemini body.
InGeminiBody(h, body) ==
    /\ Len(body.contents) = Len(h)
    /\ \A i \in 1..Len(h) : body.contents[i].parts = <<h[i].content>>

\* Every message of h has its own entry in the Anthropic body, or, a tool
\* result, its own block in the entry of its run.
InAnthropicBody(h, body) ==
    /\ Len(body.messages) = Place(h, Len(h))
    /\ \A run \in MaximalRuns(h) :
         Len(body.messages[Place(h, run[1])].content.items) = run[2] - run[1] + 1

\* C21: every message of the conversation is represented in the request
\* body of each provider, or the translation fails; none is omitted.
\* (As stated; Anthropic's translator omits a tool result without an id.)
C21_AsStated ==
    Translated =>
        \/ BuildFailed
        \/ CASE arg.provider = "openai" -> InOpenAIBody(arg.chat_history, value[1].body)
             [] arg.provider = "gemini" -> InGeminiBody(arg.chat_history, value[1].body)
             [] OTHER -> InAnthropicBody(arg.chat_history, value[1].body)

OpenAIBuilt == Translated /\ arg.provider = "openai"

LacksId(m) == IsResult(m) /\ m.tool_call_id = None

ToolTurns ==
    <<Message("FunctionCall", <<>>, None, SomeCalls(<<OAEcho1, OAEcho2>>), None),
      ResultMessage("call-1")>>

\* C22: the OpenAI body holds len(history)+1 messages: the system message
\* with the system prompt, then one message per history entry in order; a
\* tool-call turn has role assistant and its tool_calls, a tool-result turn
\* role tool and its tool_call_id.  (The build fails exactly if a
\* tool-result turn carries no id.)
C22_OpenAIMessages ==
    OpenAIBuilt =>
        LET h == arg.chat_history
            out == value[1].body.messages
        IN /\ BuildFailed <=> \E i \in 1..Len(h) : LacksId(h[i])
           /\ ~BuildFailed =>
                /\ Len(out) = Len(h) + 1
                /\ out[1].role = "system"
                /\ out[1].content = SystemPrompt
                /\ \A i \in 1..Len(h) :
                     /\ out[i + 1].content = h[i].content
                     /\ h[i].message_type = "User" => out[i + 1].role = "user"
                     /\ h[i].message_type = "FunctionCall" =>
                          /\ out[i + 1].role = "assistant"
                          /\ out[i + 1].tool_calls = h[i].tool_calls
                     /\ IsResult(h[i]) =>
                          /\ out[i + 1].role = "tool"
                          /\ out[i + 1].tool_call_id = h[i].tool_call_id

C22_Witness ==
    /\ OpenAIBuilt
    /\ arg.chat_history = ToolTurns
    /\ Len(value[1].body.messages) = 3
    /\ value[1].body.messages[2].tool_calls.calls[2].id = "call-2"
    /\ value[1].body.messages[3].tool_call_id = "call-1"

\* The models the translator treats as reasoning models.
ReasoningModels == {"GPT5"}

\* C23: the OpenAI body has a reasoning_effort field exactly if the
\* client's model is a reasoning model, whatever the history, tools, stream
\* flag and options.
C23_ReasoningEffortIffReasoningModel ==
    (OpenAIBuilt /\ ~BuildFailed) =>
        (value[1].body.reasoning_effort # None <=> arg.model \in ReasoningModels)

C23_Witness ==
    /\ OpenAIBuilt
    /\ ~BuildFailed
    /\ arg.model = "O1Mini"
    /\ arg.thinking_level = "High"
    /\ arg.tools.some
    /\ arg.stream
    /\ value[1].body.reasoning_effort = None

\* C24: for a gpt-5 client the reasoning_effort of a request is the
\* configured thinking level, and "minimal" if none was configured.  (As
\* stated; the request always says "minimal".)
C24_AsStated ==
    (OpenAIBuilt /\ ~BuildFailed /\ arg.model = "GPT5") =>
        value[1].body.reasoning_effort =
            IF arg.thinking_level = None THEN "minimal"
            ELSE as_reasoning_effort(arg.thinking_level)

(***************************************************************************)
(* Vocabulary of the properties of the model registry.                     *)
(***************************************************************************)
WireStrings(p) ==
    CASE p = "openai" -> {"gpt-5", "gpt-4o", "gpt-4o-mini", "o1-preview", "o1-mini"}
      [] p = "anthropic" ->
           {"claude-opus-4-1-20250805", "claude-opus-4-20250514", "claude-sonnet-4-20250514",
            "claude-3-7-sonnet-20250219", "claude-3-5-sonnet-20241022",
            "claude-3-5-haiku-20241022", "claude-3-5-sonnet-20240620",
            "claude-3-haiku-20240307", "claude-3-opus-20240229"}
      [] p = "gemini" ->
           {"gemini-2.5-flash-preview-04-17", "gemini-2.0-flash", "gemini-2.0-flash-lite",
            "gemini-embedding-exp"}
      [] OTHER -> {}

IsUnknownError(r) ==
    /\ r.kind = "err"
    /\ r.provider \in {"Unknown provider: ", "Unknown OpenAI model: ",
                       "Unknown Anthropic model: ", "Unknown Gemini model: "}

\* C25: a documented wire string of a provider parses to a variant whose
\* strings are the provider and that string; the strings of a variant parse
\* back to the variant; any other string is rejected with an Unknown model
\* or Unknown provider error; from_model_name of a provider's module gives
\* what API::from_strings gives.
C25_RegistryRoundTrip ==
    /\ (arg.kind = "strings" /\ Len(value) >= 1) =>
         IF arg.name \in WireStrings(arg.provider)
         THEN /\ value[1].kind = "api"
              /\ value[1].provider = arg.provider
              /\ Len(value) = 2 => value[2] = arg
         ELSE /\ IsUnknownError(value[1])
              /\ Len(value) = 1
    /\ (arg.kind = "api" /\ Len(value) >= 1) =>
         /\ value[1].kind = "strings"
         /\ value[1].provider = arg.provider
         /\ value[1].name \in WireStrings(arg.provider)
         /\ Len(value) = 2 => value[2] = arg

C25_Witness ==
    /\ arg = Strings("openai", "gpt-4o")
    /\ value = <<Variant("openai", "GPT4o"), arg>>

(***************************************************************************)
(* Vocabulary of the properties of the raw request.                        *)
(***************************************************************************)
EmptyLineAt(s, i) == i + 3 <= Len(s) /\ SubSeq(s, i, i + 3) = <<CR, NL, CR, NL>>

\* What follows the first empty line of s.
AfterHeaders(s) ==
    LET first == CHOOSE i \in 1..Len(s) :
                    EmptyLineAt(s, i) /\ \A j \in 1..(i - 1) : ~EmptyLineAt(s, j)
    IN SubSeq(s, first + 4, Len(s))

\* C26: the raw request of every provider is its header lines, one empty
\* line and then the JSON body, and Content-Length is the number of bytes
\* after that empty line.  (As stated; Gemini's request has a second line
\* end before the body.)
C26_AsStated ==
    Len(value) = 1 =>
        /\ \E i \in 1..Len(value[1].text) : EmptyLineAt(value[1].text, i)
        /\ AfterHeaders(value[1].text)[1] = "{"
        /\ value[1].content_length = Len(AfterHeaders(value[1].text))

(***************************************************************************)
(* The history inside prompt_with_tools only grows.                        *)
(***************************************************************************)
\* The sequence h begins with the sequence p.
Extends(h, p) == Len(p) <= Len(h) /\ \A i \in 1..Len(p) : h[i] = p[i]

\* The call has entered prompt_with_tools_internal.
Started == Run.pc # "idle"

\* The messages the turn of request k appended once the turn is complete:
\* the history of request k + 1 against the history of request k.
TurnAppended(k) == Len(Run.requests[k + 1]) - Len(Run.requests[k])

\* The caller's input and every history sent earlier are prefixes of the
\* current history, a completed tool-use turn of n calls added 1 + n
\* messages and the finishing turn added 1.
HistoryGrows ==
    Started =>
        /\ Extends(Run.chat_history, Run.input)
        /\ \A k \in 1..Len(Run.requests) : Extends(Run.chat_history, Run.requests[k])
        /\ \A k \in 1..Len(Run.requests) - 1 :
             TurnAppended(k) = 1 + Len(ListedCalls(provider, script[k]))
        /\ Run.pc = "done" =>
             Len(Run.chat_history) = Len(Run.requests[Run.nreq]) + 1

\* A step of the call leaves every message of the history where it was.
HistoryStep ==
    Started => Extends(Run.chat_history', Run.chat_history)

(***************************************************************************)
(* C27: inside prompt_with_tools the conversation is append-only: the      *)
(* current history always has the caller's input history as an unchanged   *)
(* prefix, no step modifies, reorders or removes a message appended        *)
(* earlier, a completed tool-use turn with n calls appends exactly 1 + n   *)
(* messages and the finishing turn appends exactly 1.                      *)
(***************************************************************************)
C27_AppendOnlyHistory == [](HistoryGrows) /\ [][HistoryStep]_vars

\* A call that completed a tool-use turn of two calls and then finished.
C27_Witness ==
    /\ Run.pc = "done"
    /\ Run.nreq = 2
    /\ Len(ListedCalls(provider, script[1])) = 2
    /\ TurnAppended(1) = 3
    /\ Len(Run.input) >= 1

(***************************************************************************)
(* What the requests of the tool loop carry.                               *)
(***************************************************************************)
\* The entry of the body that holds message i of the history h.
EntryOf(p, body, h, i) ==
    IF p = "openai" THEN body.messages[i + 1] ELSE body.messages[Place(h, i)]

\* The entries a body has for the history h: OpenAI, the system message and
\* one per message; Anthropic, one per message or run of results.
EntryCount(p, h) == IF p = "openai" THEN Len(h) + 1 ELSE Place(h, Len(h))

\* The ids of the calls an entry lists, in order.
EntryCallIds(p, entry) ==
    IF p = "openai"
    THEN [m \in 1..Len(entry.tool_calls.calls) |-> entry.tool_calls.calls[m].id]
    ELSE LET uses == SelectSeq(entry.content.items, LAMBDA b : b.type = "tool_use")
         IN [m \in 1..Len(uses) |-> uses[m].id]

\* The entry holds the text of the message.
HoldsText(p, entry, message) ==
    IF p = "openai" THEN entry.content = message.content
    ELSE IF message.message_type = "Assistant"
    THEN message.content # <<>> =>
           \E m \in 1..Len(entry.content.items) :
              entry.content.items[m] = TextBlock(message.content)
    ELSE entry.content.items = message.content

\* The entry holds a result with this id and this output.
HoldsResult(p, entry, id, output) ==
    IF p = "openai"
    THEN entry.role = "tool" /\ entry.tool_call_id = id /\ entry.content = output
    ELSE /\ entry.role = "user"
         /\ \E m \in 1..Len(entry.content.items) :
              entry.content.items[m] = ToolResultBlock(id, output)

\* Message i of the history h is in the body.
Carried(p, body, h, i) ==
    LET entry == EntryOf(p, body, h, i)
    IN IF IsResult(h[i])
       THEN HoldsResult(p, entry, h[i].tool_call_id, h[i].content)
       ELSE /\ HoldsText(p, entry, h[i])
            /\ h[i].tool_calls.some =>
                 EntryCallIds(p, entry)
                   = [m \in 1..Len(h[i].tool_calls.calls) |-> h[i].tool_calls.calls[m].id]

\* What the tool of a call returns for the call's arguments, stringified.
OutputOf(c) == ToJsonString(ToolCall(c.name, ParseJson(c.arguments)))

\* Request k follows a tool-use turn: its body lists the turn's calls and,
\* after them, one result per call with the call's id and the tool's output.
TurnCarried(k) ==
    LET h == Run.requests[k]
        body == Run.bodies[k].body
        i == Len(Run.requests[k - 1]) + 1
        cs == h[i].tool_calls.calls
        turn == EntryOf(provider, body, h, i)
    IN /\ h[i].tool_calls.some
       /\ Len(h) = i + Len(cs)
       /\ EntryCallIds(provider, turn) = [m \in 1..Len(cs) |-> cs[m].id]
       /\ \A m \in 1..Len(cs) :
            /\ HoldsResult(provider, EntryOf(provider, body, h, i + m), cs[m].id, OutputOf(cs[m]))
            /\ provider = "anthropic" =>
                 /\ Place(h, i + m) = Place(h, i) + 1
                 /\ Len(EntryOf(provider, body, h, i + m).content.items) = Len(cs)
                 /\ EntryOf(provider, body, h, i + m).content.items[m]
                      = ToolResultBlock(cs[m].id, OutputOf(cs[m]))

(***************************************************************************)
(* C28: every request of the tool loop carries the whole conversation so   *)
(* far and the unchanged tool definitions; the request after a tool-use    *)
(* turn holds the turn's tool-call message with every call id and, for     *)
(* each call, one tool result with the matching id and the tool's output.  *)
(***************************************************************************)
C28_RequestsCarryConversation ==
    /\ Len(Run.bodies) = Len(Run.requests)
    /\ \A k \in 1..Len(Run.requests) :
         LET h == Run.requests[k]
             sent == Run.bodies[k]
         IN /\ sent.kind = "ok"
            /\ sent.body.tools = SomeTools
            /\ Len(sent.body.messages) = EntryCount(provider, h)
            /\ \A i \in 1..Len(h) : Carried(provider, sent.body, h, i)
            /\ k > 1 => TurnCarried(k)

\* The second request of an Anthropic call, sent after a turn of two calls.
C28_Witness ==
    /\ Len(Run.requests) = 2
    /\ Len(ListedCalls(provider, script[1])) = 2
    /\ provider = "anthropic"
    /\ TurnCarried(2)

(***************************************************************************)
(* The tools of a turn run one after another.                              *)
(***************************************************************************)
\* The for loop over the calls of a turn is at the call at idx.
InTurn == Run.pc \in {"notify", "lookup", "running"}

\* The history holds, after the tool-call message of the last request, the
\* results of the first n calls of the turn and nothing else.
ResultsAppended(n) ==
    LET at == Len(Run.requests[Run.nreq]) + 1
    IN /\ Len(Run.chat_history) = at + n
       /\ \A m \in 1..n :
            /\ IsResult(Run.chat_history[at + m])
            /\ Run.chat_history[at + m].tool_call_id = Run.tool_calls[m].id

\* A request after the first is sent on a history that ends with the
\* results of all calls of the turn before it.
SentAfterResults(k) ==
    LET h == Run.requests[k]
        at == Len(Run.requests[k - 1]) + 1
        cs == h[at].tool_calls.calls
    IN /\ Len(h) = at + Len(cs)
       /\ \A m \in 1..Len(cs) :
            IsResult(h[at + m]) /\ h[at + m].tool_call_id = cs[m].id

(***************************************************************************)
(* C29: within one prompt_with_tools call at most one tool invocation is   *)
(* in flight; when the status message or the invocation of call i + 1      *)
(* starts, the task of call i has finished and its ToolResult is in the    *)
(* history; and a request is sent only after the results of all calls of   *)
(* the turn before it were appended.                                       *)
(***************************************************************************)
C29_ToolsRunOneAtATime ==
    /\ Run.inflight <= 1
    /\ Run.inflight = 1 => Run.pc = "running"
    /\ InTurn => /\ Run.idx \in 1..Len(Run.tool_calls)
                 /\ ResultsAppended(Run.idx - 1)
    /\ \A k \in 2..Len(Run.requests) : SentAfterResults(k)

\* The second call of a turn is running, the result of the first is in.
C29_Witness ==
    /\ Run.pc = "running"
    /\ Run.idx = 2
    /\ Run.inflight = 1
    /\ ResultsAppended(1)

(***************************************************************************)
(* When the OpenAI loop takes a response as finished.                      *)
(***************************************************************************)
\* The response was received and parsed as JSON.
Readable(resp) == resp.net /\ resp.json

\* choices[0].message.content is a string.
ContentIsString(resp) == Readable(resp) /\ resp.content.some

\* Response k ended the loop: one Assistant message without tool calls was
\* appended to the history of request k, no tool ran for it and the call
\* returned without a further request.
TreatedAsFinished(k) ==
    /\ Run.pc = "done"
    /\ Run.nreq = k
    /\ Len(Run.requests) = k
    /\ Len(Run.chat_history) = Len(Run.requests[k]) + 1
    /\ Run.chat_history[Len(Run.chat_history)].message_type = "Assistant"
    /\ ~Run.chat_history[Len(Run.chat_history)].tool_calls.some
    /\ Run.inflight = 0
    /\ Len(Run.invoked) = Len(AppendedResults)

\* Response k opened a tool-use turn: a tool-call message follows the
\* history of request k.
TreatedAsToolUse(k) ==
    /\ Len(Run.chat_history) > Len(Run.requests[k])
    /\ Run.chat_history[Len(Run.requests[k]) + 1].message_type = "FunctionCall"

(***************************************************************************)
(* C30: the OpenAI tool loop treats a response as finished exactly when    *)
(* choices[0].message.content is a string: then, even if the message also  *)
(* carries a tool_calls array, no tool is executed, no tool-call message   *)
(* is appended and no further request is sent; a response is a tool-use    *)
(* turn only when content is absent, null or not a string.                 *)
(***************************************************************************)
C30_ContentStringFinishes ==
    provider = "openai" =>
        \A k \in 1..Handled :
            /\ ContentIsString(script[k]) <=> TreatedAsFinished(k)
            /\ TreatedAsToolUse(k) => ~ContentIsString(script[k])

\* The call ended on a response that carries a string and a call of echo.
C30_Witness ==
    /\ provider = "openai"
    /\ Run.pc = "done"
    /\ ContentIsString(script[Run.nreq])
    /\ script[Run.nreq].tool_calls.kind = "array"
    /\ Len(script[Run.nreq].tool_calls.items) >= 1
    /\ TreatedAsFinished(Run.nreq)

(***************************************************************************)
(* C31: prompt_with_tools_with_status reaches its result although the      *)
(* caller receives from the channel only after the call: for every         *)
(* capacity >= 1 with the receiver alive and any number of tool calls the  *)
(* call eventually stops, sending a status never blocks it forever.        *)
(***************************************************************************)
C31_AsStated == <>Stopped(Run)

(***************************************************************************)
(* Vocabulary of the properties of network::prompt_with_tools.             *)
(***************************************************************************)
\* The response is a final answer: OpenAI, a string content; Anthropic, the
\* stop reason end_turn; Gemini, a candidate text.
FinalAnswer(p, resp) ==
    /\ resp.net /\ resp.json
    /\ IF p = "anthropic" THEN resp.stop_reason = "end_turn" ELSE resp.content.some

(***************************************************************************)
(* C32: for every provider variant of API, network::prompt_with_tools      *)
(* returns Ok or Err after finitely many requests when every request is    *)
(* answered and some response is a final answer: once that response has    *)
(* been handled the function has returned and no further request is sent.  *)
(***************************************************************************)
C32_AsStated ==
    \A k \in 1..Handled :
        FinalAnswer(provider, script[k]) => Run.nreq = k /\ Returned

(***************************************************************************)
(* Vocabulary of the properties of a stream that ends without terminator.  *)
(***************************************************************************)
\* The decoder is at a read of a line and the connection has no more bytes:
\* reader.lines() is exhausted, read_line returns 0.
EofAtLine == outcome = "reading" /\ pos = Len(stream)

\* The next read of the decoder runs into the end of the connection, at a
\* line or (Gemini) inside the chunk whose size it has read.
MeetsEof ==
    /\ outcome = "reading"
    /\ IF decoder = "gemini" THEN ReadPass(pos).kind \in {"eof", "error"}
       ELSE pos = Len(stream)

\* The decoding ends in this step.
DecodingEnds == outcome = "reading" /\ outcome' # "reading"

\* The step returns the accumulated text, and prompt_stream an Assistant
\* message with it.
ReturnsAccumulated ==
    /\ outcome' = "ok"
    /\ full_message' = full_message
    /\ prompt_stream(outcome', full_message')
         = [kind |-> "ok",
            message |-> Message("Assistant", full_message, None, NoCalls, None)]

\* No terminator is in the stream: no `]` among the bytes of a Gemini
\* stream, no [DONE], empty payload or message_stop among the lines.
NoTerminator ==
    IF decoder = "gemini" THEN \A i \in 1..Len(stream) : stream[i] # "]"
    ELSE \A i \in 1..Len(stream) : ~Terminator(decoder, stream[i])

(***************************************************************************)
(* C33 as stated: a decoder whose read meets the end of the stream before  *)
(* a terminator returns successfully with the text accumulated so far.     *)
(***************************************************************************)
C33_AsStated == [][(MeetsEof /\ DecodingEnds) => ReturnsAccumulated]_vars

(***************************************************************************)
(* C33, amended: a decoder that finds the end of the stream where it reads *)
(* a line (the SSE lines are exhausted, Gemini's read_line returns 0)      *)
(* returns Ok with the text accumulated so far and prompt_stream returns   *)
(* an Assistant message with that text, exactly what it returns after a    *)
(* terminator; a Gemini stream that ends inside a chunk is a read error.   *)
(***************************************************************************)
C33_EofAtLineReturnsText ==
    [][/\ (EofAtLine /\ DecodingEnds) => ReturnsAccumulated
       /\ (DecodingEnds /\ outcome' = "ok") => ReturnsAccumulated
       /\ (MeetsEof /\ ~EofAtLine /\ DecodingEnds) =>
             decoder = "gemini" /\ outcome' = "error"]_vars

\* A Gemini stream without `]` was decoded to its end and gave a text.
C33_Witness ==
    /\ decoder = "gemini"
    /\ NoTerminator
    /\ pos = Len(stream)
    /\ outcome = "ok"
    /\ full_message # <<>>

(***************************************************************************)
(* Vocabulary of the properties of payloads that carry no text.            *)
(***************************************************************************)
\* The bytes of the chunk whose size line starts at pos, trimmed; <<>> when
\* the line at pos is no size or the connection ends inside the chunk.
ChunkAtPos ==
    LET q == LineEnd(pos)
        size == FromStrRadix16(Trim(SubSeq(stream, pos + 1, q)))
    IN IF pos < Len(stream) /\ size > 0 /\ q + size <= Len(stream)
       THEN Trim(SubSeq(stream, q + 1, q + size))
       ELSE <<>>

\* What follows the leading marker of a chunk; None for a chunk without.
AfterMarker(chunk) ==
    IF chunk # <<>> /\ chunk[1] = "[" THEN SomeText(Tail(chunk))
    ELSE IF Len(chunk) >= 3 /\ SubSeq(chunk, 1, 3) = <<",", CR, NL>>
    THEN SomeText(SubSeq(chunk, 4, Len(chunk)))
    ELSE NoText

\* The remainder is an object that carries a text.
CarriesText(rest) == Len(rest) > 2 /\ rest[1] = "{" /\ rest[Len(rest)] = "}"

\* The Gemini decoder is at a chunk with a marker whose remainder is no
\* JSON, or JSON without the text.
AtTextlessChunk ==
    /\ decoder = "gemini"
    /\ outcome = "reading"
    /\ ChunkAtPos # <<"]">>
    /\ \A i \in 1..Len(ChunkAtPos) : ChunkAtPos[i] # BadByte
    /\ AfterMarker(ChunkAtPos).some
    /\ ~CarriesText(AfterMarker(ChunkAtPos).s)

\* An SSE decoder is at a data line whose payload is no JSON.
AtInvalidPayload ==
    /\ decoder # "gemini"
    /\ outcome = "reading"
    /\ pos < Len(stream)
    /\ stream[pos + 1].prefix = "data"
    /\ stream[pos + 1].payload = "garbage"

(***************************************************************************)
(* C34: a Gemini chunk whose remainder after the leading marker is no      *)
(* valid JSON, or JSON without a string at                                 *)
(* candidates[0].content.parts[0].text, gives no delta and does not abort: *)
(* accumulator and observer channel are unchanged and decoding goes on     *)
(* with the next chunk; in the SSE decoders a payload that is no JSON ends *)
(* the stream with an error.                                               *)
(***************************************************************************)
C34_TextlessChunkIsSkipped ==
    [][/\ (AtTextlessChunk /\ pos' # pos) =>
             /\ full_message' = full_message
             /\ channel' = channel
             /\ emitted' = emitted
             /\ outcome' = "reading"
             /\ pos' > pos
       /\ (AtInvalidPayload /\ pos' # pos) => outcome' = "error"]_vars

\* A text was decoded from the chunk after a chunk that is `[` alone.
C34_Witness ==
    /\ decoder = "gemini"
    /\ Len(stream) >= Len(Chunk(<<"[">>))
    /\ SubSeq(stream, 1, Len(Chunk(<<"[">>))) = Chunk(<<"[">>)
    /\ full_message = ObjectText(ObjYo)
    /\ emitted = <<ObjectText(ObjYo)>>

(***************************************************************************)
(* C35: streamed and buffered decoding agree: for every assistant text t   *)
(* the content prompt returns for a response carrying t equals the content *)
(* prompt_stream returns for a stream carrying t as its one delta, for the *)
(* OpenAI and Anthropic clients.                                           *)
(***************************************************************************)
C35_AsStated == Len(value) = 2 => value[1] = value[2]

(***************************************************************************)
(* Vocabulary of the properties of the mock server.                        *)
(***************************************************************************)

Connections == 1..Len(connections)

\* The handler of connection c has selected its response.
Selected(c) == connections[c].pc \in {"send", "done", "unsent"}

\* The connections whose request for the path has had its response selected.
SelectedOn(path) == {c \in Connections : Selected(c) /\ connections[c].path = path}

\* The path is registered with at least one responder.
Served(path) == path \in DOMAIN routes /\ routes[path].responders # <<>>

\* r_min(k, n-1) of the responders r_0..r_{n-1}.
ResponderFor(responders, k) ==
    responders[(IF k < Len(responders) - 1 THEN k ELSE Len(responders) - 1) + 1]

\* C36: on a route with responders r_0..r_{n-1}, n >= 1, the requests whose
\* response has been selected are the 0th, 1st, ... request of the route and
\* the k-th of them is answered with r_min(k, n-1); a request for an
\* unregistered path or for a route without responders is answered with 404,
\* and the counter of every route counts only the requests that route served.
C36_ResponseSequencing ==
    /\ \A c \in Connections :
         Selected(c) =>
           LET path == connections[c].path
           IN  IF Served(path)
               THEN connections[c].answer =
                        ResponderFor(routes[path].responders, connections[c].k)
               ELSE connections[c].answer = NotFound
    /\ \A path \in DOMAIN routes :
         IF Served(path)
         THEN /\ routes[path].call_count = Cardinality(SelectedOn(path))
              /\ {connections[c].k : c \in SelectedOn(path)} =
                     0..(Cardinality(SelectedOn(path)) - 1)
         ELSE routes[path].call_count = 0

\* Three requests were answered on a route with two responders: the first
\* with r_0, the second with r_1, the third with r_1 again.
C36_Witness ==
    /\ Len(routes["/v1/chat"].responders) = 2
    /\ Cardinality(SelectedOn("/v1/chat")) = 3
    /\ \A c \in Connections : connections[c].pc = "done"
    /\ \E first, second, third \in Connections :
         /\ connections[first].k = 0 /\ connections[first].answer = "r0"
         /\ connections[second].k = 1 /\ connections[second].answer = "r1"
         /\ connections[third].k = 2 /\ connections[third].answer = "r1"

\* The handler of connection c has recorded its request.
IsRecorded(c) == connections[c].recorded # 0

\* The handler of connection c has left its read loop and has passed the
\* recording of the request, or has returned without reaching it.
PastRecording(c) == connections[c].pc \notin {"read", "body", "record"}

\* The connections whose recorded request asks for the path.
RecordedOn(path) == {c \in Connections : IsRecorded(c) /\ connections[c].path = path}

\* The place of the request of connection c among the recorded requests of
\* its path.
RankOf(c) ==
    Cardinality({d \in RecordedOn(connections[c].path) :
                    connections[d].recorded <= connections[c].recorded})

\* Every recorded request stands once in the recordings, as its handler
\* recorded it.
RecordedOnce ==
    /\ Len(recordings) = Cardinality({c \in Connections : IsRecorded(c)})
    /\ \A c \in Connections :
         IsRecorded(c) =>
           /\ connections[c].recorded \in 1..Len(recordings)
           /\ recordings[connections[c].recorded] = Recorded(connections[c])
    /\ \A c, d \in Connections :
         IsRecorded(c) /\ c # d => connections[c].recorded # connections[d].recorded

\* A response is selected only for a request that stands in the recordings.
RecordedBeforeSelected ==
    \A c \in Connections :
      connections[c].pc = "select" \/ Selected(c) => IsRecorded(c)

\* requests_for(p) lists the recorded requests of path p in recording order.
RequestsForLists ==
    \A path \in RequestPaths :
      /\ Len(requests_for(path)) = Cardinality(RecordedOn(path))
      /\ \A c \in RecordedOn(path) :
           /\ RankOf(c) \in 1..Len(requests_for(path))
           /\ requests_for(path)[RankOf(c)] = Recorded(connections[c])

\* Once every connection has received its response, requests_for(p) is as
\* long as the number of requests sent to p.
AnsweredAreCounted ==
    (\A c \in Connections : connections[c].pc = "done") =>
      \A path \in RequestPaths :
        Len(requests_for(path)) =
          Cardinality({c \in Connections : connections[c].path = path})

\* The recordings only grow, one request at a time.
RecordingsStep ==
    \/ recordings' = recordings
    \/ \E c \in Connections : recordings' = Append(recordings, Recorded(connections[c]))

ResponderIndex(c) ==
    LET last == Len(routes[connections[c].path].responders) - 1
    IN  IF connections[c].k < last THEN connections[c].k ELSE last

\* Of two answered requests on one route, the one recorded earlier has the
\* earlier responder.
RecordingOrderIsResponderOrder ==
    \A path \in DOMAIN routes :
      Served(path) =>
        \A c, d \in SelectedOn(path) :
          connections[c].recorded < connections[d].recorded =>
            ResponderIndex(c) <= ResponderIndex(d)

\* No two answered requests on one route share a responder other than the
\* last one.
NoSharedResponder ==
    \A path \in DOMAIN routes :
      Served(path) =>
        \A c, d \in SelectedOn(path) :
          /\ c # d
          /\ ResponderIndex(c) = ResponderIndex(d)
          => ResponderIndex(c) = Len(routes[path].responders) - 1

\* C38 as the claim states it: with several connections to one route in
\* flight, the request recorded earlier is answered with the earlier
\* responder, and no two requests are answered with the same responder
\* unless it is the last one.
C38_AsStated == RecordingOrderIsResponderOrder /\ NoSharedResponder

(***************************************************************************)
(* Properties of the serialization of a message.                           *)
(***************************************************************************)

\* C39 as the claim states it: for every variant of every provider, the
\* provider and model written for the `api` field of a serialized message
\* are the pair of strings that to_strings returns for the variant.
C39_AsStated == Len(value) = 2 => value[1].api = value[2]
====
